---- MODULE Spec2Model ----
(***************************************************************************)
(* Lighting-plan controllers of the Flamingods installation.              *)
(*                                                                         *)
(* One behaviour follows one device, chosen at power-on (dev):            *)
(*   crown  - esps/crown/src/main.cpp  + esps/crown/src/led_plans.cpp     *)
(*   stage  - esps/stage/src/main.cpp  + esps/stage/src/led_plans.cpp     *)
(*   button - esps/button/src/main.cpp (its LEDPlans class is not part of *)
(*            the sources at hand and is modelled from the design text)   *)
(*   flamingo - esps/flamingo/src/main.cpp + led_plans.cpp (TickSpec)     *)
(*                                                                         *)
(* Spec explores all events with coarse steps of the clock; TickSpec      *)
(* follows the render loops frame by frame, TickSpecFair adds that the    *)
(* loop keeps running.  StationSpec and HeldSpec run the station          *)
(* (esps/station/src/main.cpp) beside the crown as its client, each board *)
(* taking its own steps; WrapSpec starts crown and stage shortly before   *)
(* their clock wraps.                                                     *)
(*                                                                         *)
(* loop() is followed statement by statement with a program counter pc;   *)
(* every callback / request handler is one action.  The clock (millis())  *)
(* advances in the delay() that ends each loop iteration.  The pixel      *)
(* buffer leds[] is kept as a description of its last fill (which         *)
(* function wrote it, with which colour and which sine phase).            *)
(***************************************************************************)
EXTENDS Integers, Sequences, FiniteSets, TLC

VARIABLES
    dev,              \* which device this behaviour follows
    pc,               \* position in setup()/loop()
    now,              \* millis(), a 32-bit word (see Word)
    ledController,    \* the LEDPlans object (record of its fields)
    currentPlan,      \* main.cpp: LightingPlan currentPlan
    wifiConnected,    \* main.cpp: bool wifiConnected
    lastWiFiCheck,    \* crown main.cpp: unsigned long lastWiFiCheck
    lastStatusUpdate, \* main.cpp: unsigned long lastStatusUpdate
    otaInProgress,    \* main.cpp: bool otaInProgress
    otaStartTime,     \* main.cpp: unsigned long otaStartTime
    otaPrevPlan,      \* the active plan when the last update started
    otaProgress,      \* main.cpp: int otaProgress
    leds,             \* led_plans.cpp: CRGB leds[NUM_LEDS], see Frame
    tickSetPlans,     \* setPlan calls made so far in this loop iteration
    trueElapsed,      \* history: the sum of the delays since the running
                      \* Button or Skip plan was set, 0 under other plans
    station,          \* the station beside the crown (record), see StationOff
    ev                \* the step that was executed last and its input

vars == <<dev, pc, now, ledController, currentPlan, wifiConnected,
          lastWiFiCheck, lastStatusUpdate, otaInProgress, otaStartTime,
          otaPrevPlan, otaProgress, leds, tickSetPlans, trueElapsed,
          station, ev>>

\* otaPrevPlan before any update has started
NoPlan == "none"

\* the plan as main.cpp and the controller hold it, with the pixel buffer
planVars == <<currentPlan, ledController, leds, tickSetPlans, trueElapsed>>

mainVars == <<currentPlan, wifiConnected, lastWiFiCheck, lastStatusUpdate,
              otaInProgress, otaStartTime, otaPrevPlan, otaProgress>>

----------------------------------------------------------------------------
(* Bounds of the exploration *)

\* the clock is explored up to these values (ms since power-on)
CrownMaxTime == 20502
StageMaxTime == 1800
ButtonMaxTime == 1800

\* lengths of one loop iteration (delay(20) plus whatever the iteration took)
CrownDeltas == {5000, 9999, 10000, 10001}
StageDeltas == {150, 449, 450, 620}
ButtonDeltas == {150, 449, 450, 620}

\* the render loops followed frame by frame (TickSpec)
CrownTickMaxTime == 20600
StageTickMaxTime == 11400
FlamingoMaxTime == 10600
CrownTickDeltas == {20}
StageTickDeltas == {20}
FlamingoDeltas == {50, 100}

----------------------------------------------------------------------------
(* Plans, integer widths *)

PLAN_IDLE == "PLAN_IDLE"
PLAN_BUTTON == "PLAN_BUTTON"
PLAN_WIFI_FALLBACK == "PLAN_WIFI_FALLBACK"
PLAN_SKIP == "PLAN_SKIP"
PLAN_SHOW == "PLAN_SHOW"
PLAN_SPECIAL == "PLAN_SPECIAL"

CrownPlans == {PLAN_IDLE, PLAN_BUTTON, PLAN_WIFI_FALLBACK}
StagePlans == {PLAN_IDLE, PLAN_SKIP, PLAN_SHOW, PLAN_SPECIAL}

\* uint8_t arithmetic
U8(x) == x % 256

\* An unsigned long is a 32-bit word.  The unsigned value of a word is
\* Hi * 65536 + Lo with both halves in 0 .. 65535; a state holds the word
\* as the number Word(hi, lo), which is that value itself below 2^31 and
\* that value less 2^32 from 2^31 on (the values near 2^32 do not fit the
\* integers of the checker).  The arithmetic is done on the halves, as
\* the 32-bit machine does it: a carry or borrow out of the upper half is
\* dropped, which is the wrap at 2^32.
HalfWord == 2 ^ 16
Hi(w) == (w \div HalfWord) % HalfWord
Lo(w) == w % HalfWord
Word(hi, lo) ==
    (IF hi >= HalfWord \div 2 THEN hi - HalfWord ELSE hi) * HalfWord + lo

\* unsigned long a + b, modulo 2^32
UAdd(a, b) ==
    LET lo == Lo(a) + Lo(b)
        hi == Hi(a) + Hi(b) + lo \div HalfWord
    IN  Word(hi % HalfWord, lo % HalfWord)

\* a < b as unsigned values
UnsignedLess(a, b) ==
    LET ha == Hi(a)
        hb == Hi(b)
    IN  ha < hb \/ (ha = hb /\ Lo(a) < Lo(b))

\* subtraction that gives 0 instead of wrapping when a is below b
USubSaturating(a, b) == IF UnsignedLess(a, b) THEN 0 ELSE a - b

\* unsigned long a - b, modulo 2^32
USub(a, b) ==
    LET lo == Lo(a) - Lo(b)
        hi == Hi(a) - Hi(b) - (IF lo < 0 THEN 1 ELSE 0)
    IN  Word(hi % HalfWord, lo % HalfWord)

\* x > k and x < k as unsigned values
UGt(x, k) == UnsignedLess(k, x)
ULt(x, k) == UnsignedLess(x, k)

\* the plans that end by themselves: Button (crown), Skip (stage, button
\* device)
TimedPlans == {PLAN_BUTTON, PLAN_SKIP}

NUM_LEDS == 200
BRIGHTNESS == 100
BUTTON_DURATION == 10000
WIFI_CHECK_INTERVAL == 10000
STATUS_INTERVAL == 5000
WIFI_ATTEMPT_DELAY == 500
WIFI_MAX_ATTEMPTS == 20

\* The pixel buffer after function `by` filled it: every pixel has the
\* colour `fill`; for the pulsing fills the channel named by `fill` is
\* sin8(arg) and the others are 0; for "party" arg is the sub-pattern and
\* for "halo" (halo colour under three comets) arg is the pulse phase.
Frame(by, fill, arg) == [by |-> by, fill |-> fill, arg |-> arg]

\* the zero-initialised buffer at power-on
PowerOnFrame == Frame("none", "Black", 0)

\* LEDPlans::clearAll()
clearAll == Frame("clearAll", "Black", 0)

NoEv == [op |-> "boot", arg |-> ""]
Ev(o, a) == [op |-> o, arg |-> a]

----------------------------------------------------------------------------
(* crown: LEDPlans (esps/crown/src/led_plans.cpp) *)

\* LEDPlans::LEDPlans()
CrownLEDPlans ==
    [currentPlan |-> PLAN_IDLE, lastUpdate |-> 0, animationStep |-> 0,
     hue |-> 0, brightness |-> BRIGHTNESS,
     idleHue |-> 32, idleBrightness |-> 50, haloPulseStep |-> 0,
     buttonStartTime |-> 0, buttonActive |-> FALSE,
     partyHue |-> 0, partySpeed |-> 0, partyPattern |-> 0,
     fallbackHue |-> 32, fallbackBrightness |-> 50, fallbackPulseStep |-> 0,
     runningPixelPos |-> 0, runningPixelHue |-> 0]

\* setPlan without the plan-specific initialisation
CrownSetPlanNoReset(led, plan, t) ==
    [led EXCEPT !.currentPlan = plan, !.animationStep = 0, !.lastUpdate = t]

\* LEDPlans::setPlan(plan), called when millis() = t
CrownSetPlan(led, plan, t) ==
    LET base == [led EXCEPT !.currentPlan = plan,
                            !.animationStep = 0,
                            !.lastUpdate = t]
    IN  CASE plan = PLAN_IDLE ->
                [base EXCEPT !.idleHue = 32,
                             !.idleBrightness = 50,
                             !.haloPulseStep = 0]
          [] plan = PLAN_BUTTON ->
                [base EXCEPT !.buttonStartTime = t,
                             !.buttonActive = TRUE,
                             !.partyHue = 0,
                             !.partySpeed = 0,
                             !.partyPattern = 0]
          [] plan = PLAN_WIFI_FALLBACK ->
                [base EXCEPT !.fallbackHue = 32,
                             !.fallbackBrightness = 50,
                             !.fallbackPulseStep = 0,
                             !.runningPixelPos = 0,
                             !.runningPixelHue = 0]

\* LEDPlans::getCurrentPlan()
getCurrentPlan(led) == led.currentPlan

\* updateIdle() that leaves the wrap to the 8-bit type
CrownUpdateIdleNoWrap(led) ==
    [led EXCEPT !.haloPulseStep = U8(led.haloPulseStep + 1)]

\* LEDPlans::updateIdle()
CrownUpdateIdle(led) ==
    LET s == U8(led.haloPulseStep + 1)
    IN  [led EXCEPT !.haloPulseStep = IF s > 127 THEN 0 ELSE s]

\* updateButton returning to Idle one second early
CrownUpdateButtonEarly(led, t) ==
    LET elapsed == USub(t, led.buttonStartTime)
    IN  IF UGt(elapsed, 9000)
        THEN CrownSetPlan([led EXCEPT !.currentPlan = PLAN_IDLE], PLAN_IDLE, t)
        ELSE [led EXCEPT !.partySpeed = U8(led.partySpeed + 1),
                         !.partyHue = U8(led.partyHue + 3),
                         !.partyPattern = (elapsed \div 1000) % 4]

\* LEDPlans::updateButton(), millis() = t
CrownUpdateButton(led, t) ==
    LET elapsed == USub(t, led.buttonStartTime)
    IN  IF UGt(elapsed, BUTTON_DURATION)
        THEN CrownSetPlan([led EXCEPT !.currentPlan = PLAN_IDLE], PLAN_IDLE, t)
        ELSE [led EXCEPT !.partySpeed = U8(led.partySpeed + 1),
                         !.partyHue = U8(led.partyHue + 3),
                         !.partyPattern = (elapsed \div 1000) % 4]

\* updateWiFiFallback() that leaves the comet position to the 8-bit type
CrownUpdateWiFiFallbackNoPosReset(led) ==
    LET s == U8(led.fallbackPulseStep + 1)
        p == U8(led.runningPixelPos + 1)
        h == U8(led.runningPixelHue + 5)
    IN  [led EXCEPT !.fallbackPulseStep = IF s > 127 THEN 0 ELSE s,
                    !.runningPixelPos = p,
                    !.runningPixelHue = IF h > 255 THEN 0 ELSE h]

\* LEDPlans::updateWiFiFallback()
CrownUpdateWiFiFallback(led) ==
    LET s == U8(led.fallbackPulseStep + 1)
        p == U8(led.runningPixelPos + 1)
        h == U8(led.runningPixelHue + 5)
    IN  [led EXCEPT !.fallbackPulseStep = IF s > 127 THEN 0 ELSE s,
                    !.runningPixelPos = IF p >= NUM_LEDS THEN 0 ELSE p,
                    !.runningPixelHue = IF h > 255 THEN 0 ELSE h]

\* update() that lets the Button timer fire whichever plan is active
CrownUpdateStaleTimer(led, t) ==
    LET r == IF led.buttonActive
                  /\ UGt(USub(t, led.buttonStartTime), BUTTON_DURATION)
             THEN CrownSetPlan([led EXCEPT !.buttonActive = FALSE],
                               PLAN_IDLE, t)
             ELSE CASE led.currentPlan = PLAN_IDLE -> CrownUpdateIdle(led)
                    [] led.currentPlan = PLAN_BUTTON ->
                           CrownUpdateButton(led, t)
                    [] led.currentPlan = PLAN_WIFI_FALLBACK ->
                           CrownUpdateWiFiFallback(led)
    IN  [r EXCEPT !.lastUpdate = t]

\* LEDPlans::update(), millis() = t
CrownUpdate(led, t) ==
    LET r == CASE led.currentPlan = PLAN_IDLE -> CrownUpdateIdle(led)
               [] led.currentPlan = PLAN_BUTTON -> CrownUpdateButton(led, t)
               [] led.currentPlan = PLAN_WIFI_FALLBACK ->
                      CrownUpdateWiFiFallback(led)
    IN  [r EXCEPT !.lastUpdate = t]

\* update() whose Button renderer draws its frame in the expiry tick too
CrownLedsDrawThenExpire(led, t, buf) ==
    CASE led.currentPlan = PLAN_IDLE ->
             Frame("updateIdle", "blue", U8(U8(led.haloPulseStep + 1) * 2))
      [] led.currentPlan = PLAN_BUTTON ->
             LET elapsed == USub(t, led.buttonStartTime)
             IN  Frame("updateButton", "party", (elapsed \div 1000) % 4)
      [] led.currentPlan = PLAN_WIFI_FALLBACK ->
             Frame("updateWiFiFallback", "halo",
                   U8(U8(led.fallbackPulseStep + 1) * 2))

\* what LEDPlans::update() leaves in the pixel buffer buf, millis() = t:
\* updateIdle and updateWiFiFallback fill it from the incremented pulse
\* step, updateButton from the sub-pattern, and the expiry branch of
\* updateButton returns without writing a pixel
CrownLeds(led, t, buf) ==
    CASE led.currentPlan = PLAN_IDLE ->
             Frame("updateIdle", "blue", U8(U8(led.haloPulseStep + 1) * 2))
      [] led.currentPlan = PLAN_BUTTON ->
             LET elapsed == USub(t, led.buttonStartTime)
             IN  IF UGt(elapsed, BUTTON_DURATION)
                 THEN buf
                 ELSE Frame("updateButton", "party", (elapsed \div 1000) % 4)
      [] led.currentPlan = PLAN_WIFI_FALLBACK ->
             Frame("updateWiFiFallback", "halo",
                   U8(U8(led.fallbackPulseStep + 1) * 2))

\* random16(lim): the values the generator can return
random16(lim) == 0 .. (lim - 1)

\* the indices a loop `for (int i = 0; i < n; i++) leds[i] = ...` writes
AllLeds(n) == 0 .. (n - 1)

\* updateButton(): the indices written for sub-pattern `pattern`, glitter
\* included (addGlitter writes leds[random16(NUM_LEDS)])
CrownButtonWrites(pattern) ==
    (IF pattern = 3
     THEN AllLeds(NUM_LEDS) \cup random16(NUM_LEDS)
     ELSE AllLeds(NUM_LEDS))
    \cup random16(NUM_LEDS)

\* updateWiFiFallback(): the head of comet i when runningPixelPos = pos
CometHead(pos, i) == (pos + i * 30) % NUM_LEDS

\* comets whose trail is written without the test of the upper end
CrownCometWritesUnguarded(pos) ==
    UNION { LET pixelPos == (pos + i * 30) % NUM_LEDS
            IN  {pixelPos} \cup {pixelPos + j : j \in 1..3}
          : i \in 0..2 }

\* updateWiFiFallback(): the indices written for the three comets when
\* runningPixelPos = pos (head, then the trail pixels that pass the
\* `pixelPos + j < NUM_LEDS` test)
CrownCometWrites(pos) ==
    UNION { LET pixelPos == (pos + i * 30) % NUM_LEDS
            IN  IF pixelPos < NUM_LEDS
                THEN {pixelPos}
                       \cup {pixelPos + j :
                               j \in {k \in 1..3 : pixelPos + k < NUM_LEDS}}
                ELSE {}
          : i \in 0..2 }

\* the indices of leds[] that LEDPlans::update() writes, millis() = t
CrownWrites(led, t) ==
    CASE led.currentPlan = PLAN_IDLE -> AllLeds(NUM_LEDS)
      [] led.currentPlan = PLAN_BUTTON ->
             LET elapsed == USub(t, led.buttonStartTime)
             IN  IF UGt(elapsed, BUTTON_DURATION)
                 THEN {}
                 ELSE CrownButtonWrites((elapsed \div 1000) % 4)
      [] led.currentPlan = PLAN_WIFI_FALLBACK ->
             AllLeds(NUM_LEDS)
               \cup CrownCometWrites(U8(led.runningPixelPos + 1))

----------------------------------------------------------------------------
(* crown: main.cpp *)

\* power-on: globals as initialised at their definitions
Boot(d) ==
    /\ dev = d
    /\ pc = "setup"
    /\ now = 0
    /\ currentPlan = PLAN_IDLE
    /\ wifiConnected = FALSE
    /\ lastWiFiCheck = 0
    /\ lastStatusUpdate = 0
    /\ otaInProgress = FALSE
    /\ otaStartTime = 0
    /\ otaPrevPlan = NoPlan
    /\ otaProgress = 0
    /\ leds = PowerOnFrame
    /\ tickSetPlans = 0
    /\ trueElapsed = 0
    /\ ev = NoEv

\* ESP.restart(): the program starts again from power-on
Reboot ==
    /\ pc' = "setup"
    /\ now' = 0
    /\ currentPlan' = PLAN_IDLE
    /\ wifiConnected' = FALSE
    /\ lastWiFiCheck' = 0
    /\ lastStatusUpdate' = 0
    /\ otaInProgress' = FALSE
    /\ otaStartTime' = 0
    /\ otaPrevPlan' = NoPlan
    /\ otaProgress' = 0
    /\ leds' = PowerOnFrame
    /\ tickSetPlans' = 0
    /\ trueElapsed' = 0
    /\ ev' = NoEv
    /\ UNCHANGED <<dev, station>>

\* setupWiFi(): the outcomes explored are "connected after one 500 ms wait"
\* and "gave up after 20 waits"
WifiOutcomes == {<<1, TRUE>>, <<WIFI_MAX_ATTEMPTS, FALSE>>}

\* setup() that starts in Idle whatever setupWiFi() found
CrownSetupAlwaysIdle ==
    /\ dev = "crown" /\ pc = "setup"
    /\ \E o \in WifiOutcomes :
         LET t == now + o[1] * WIFI_ATTEMPT_DELAY
         IN  /\ now' = t
             /\ wifiConnected' = o[2]
             /\ currentPlan' = PLAN_IDLE
             /\ ledController' = CrownSetPlan(ledController, PLAN_IDLE, t)
             /\ ev' = Ev("setup", "")
    /\ leds' = clearAll
    /\ tickSetPlans' = 0
    /\ trueElapsed' = 0
    /\ pc' = "ota"
    /\ UNCHANGED <<dev, station,
                   lastWiFiCheck, lastStatusUpdate, otaInProgress,
                   otaStartTime, otaPrevPlan, otaProgress>>

\* setup() of the crown
CrownSetup ==
    /\ dev = "crown" /\ pc = "setup"
    /\ \E o \in WifiOutcomes :
         LET t == now + o[1] * WIFI_ATTEMPT_DELAY
             p == IF o[2] THEN PLAN_IDLE ELSE PLAN_WIFI_FALLBACK
         IN  /\ now' = t
             /\ wifiConnected' = o[2]
             /\ currentPlan' = p
             /\ ledController' = CrownSetPlan(ledController, p, t)
             /\ ev' = Ev("setup", "")
    /\ leds' = clearAll
    /\ tickSetPlans' = 0
    /\ trueElapsed' = 0
    /\ pc' = "ota"
    /\ UNCHANGED <<dev, station,
                   lastWiFiCheck, lastStatusUpdate, otaInProgress,
                   otaStartTime, otaPrevPlan, otaProgress>>

\* ArduinoOTA.handle() with nothing to deliver
CrownOtaIdle ==
    /\ dev = "crown" /\ pc = "ota"
    /\ pc' = "http"
    /\ ev' = Ev("otaNone", "")
    /\ UNCHANGED <<dev, station,
                   now, ledController, leds, tickSetPlans,
                   trueElapsed, mainVars>>

\* onStart that raises the flag but leaves the plan alone
CrownOnStartNoSwitch ==
    /\ dev = "crown" /\ pc = "ota"
    /\ ~otaInProgress
    /\ otaInProgress' = TRUE
    /\ otaStartTime' = now
    /\ otaPrevPlan' = getCurrentPlan(ledController)
    /\ otaProgress' = 0
    /\ pc' = "http"
    /\ ev' = Ev("onStart", "")
    /\ UNCHANGED <<dev, station, now, planVars, wifiConnected,
                   lastWiFiCheck, lastStatusUpdate>>

\* ArduinoOTA.onStart callback
CrownOnStart ==
    /\ dev = "crown" /\ pc = "ota"
    /\ ~otaInProgress
    /\ otaInProgress' = TRUE
    /\ otaStartTime' = now
    /\ otaPrevPlan' = getCurrentPlan(ledController)
    /\ otaProgress' = 0
    /\ currentPlan' = PLAN_WIFI_FALLBACK
    /\ ledController' = CrownSetPlan(ledController, PLAN_WIFI_FALLBACK, now)
    /\ tickSetPlans' = tickSetPlans + 1
    /\ trueElapsed' = 0
    /\ UNCHANGED leds
    /\ pc' = "http"
    /\ ev' = Ev("onStart", "")
    /\ UNCHANGED <<dev, station,
                   now, wifiConnected, lastWiFiCheck, lastStatusUpdate>>

\* progress reports explored: <<progress, total>>
ProgressInputs == {<<1, 2>>, <<2, 2>>}

\* ArduinoOTA.onProgress callback
CrownOnProgress ==
    /\ dev = "crown" /\ pc = "ota"
    /\ otaInProgress
    /\ \E pr \in ProgressInputs :
         otaProgress' = (pr[1] * 100) \div pr[2]
    /\ pc' = "http"
    /\ ev' = Ev("onProgress", "")
    /\ UNCHANGED <<dev, station, now, planVars, wifiConnected,
                   lastWiFiCheck, lastStatusUpdate, otaInProgress,
                   otaStartTime, otaPrevPlan>>

\* ArduinoOTA.onEnd callback: clears the flag, waits 3 s and restarts the
\* chip, after which the program starts again from power-on
CrownOnEnd ==
    /\ dev = "crown" /\ pc = "ota"
    /\ otaInProgress
    /\ Reboot
    /\ ledController' = CrownLEDPlans

\* onError that leaves the update flag as it is
CrownOnErrorKeepFlag ==
    /\ dev = "crown" /\ pc = "ota"
    /\ IF wifiConnected
       THEN /\ currentPlan' = PLAN_IDLE
            /\ ledController' = CrownSetPlan(ledController, PLAN_IDLE, now)
            /\ tickSetPlans' = tickSetPlans + 1
            /\ trueElapsed' = 0
            /\ UNCHANGED leds
       ELSE UNCHANGED planVars
    /\ pc' = "http"
    /\ ev' = Ev("onError", "")
    /\ UNCHANGED <<dev, station,
                   now, wifiConnected, lastWiFiCheck, lastStatusUpdate,
                   otaInProgress, otaStartTime, otaPrevPlan, otaProgress>>

\* ArduinoOTA.onError callback
CrownOnError ==
    /\ dev = "crown" /\ pc = "ota"
    /\ otaInProgress' = FALSE
    /\ IF wifiConnected
       THEN /\ currentPlan' = PLAN_IDLE
            /\ ledController' = CrownSetPlan(ledController, PLAN_IDLE, now)
            /\ tickSetPlans' = tickSetPlans + 1
            /\ trueElapsed' = 0
            /\ UNCHANGED leds
       ELSE UNCHANGED planVars
    /\ pc' = "http"
    /\ ev' = Ev("onError", "")
    /\ UNCHANGED <<dev, station,
                   now, wifiConnected, lastWiFiCheck, lastStatusUpdate,
                   otaStartTime, otaPrevPlan, otaProgress>>

\* server.handleClient() with no request pending
CrownHttpIdle ==
    /\ dev = "crown" /\ pc = "http"
    /\ pc' = "wifi"
    /\ ev' = Ev("httpNone", "")
    /\ UNCHANGED <<dev, station,
                   now, ledController, leds, tickSetPlans,
                   trueElapsed, mainVars>>

\* a request handler of the crown that only answers; `what` is what the
\* response reports
CrownAnswer(name, what) ==
    /\ dev = "crown" /\ pc = "http"
    /\ pc' = "wifi"
    /\ ev' = Ev(name, what)
    /\ UNCHANGED <<dev, station,
                   now, ledController, leds, tickSetPlans,
                   trueElapsed, mainVars>>

\* handleStatus(): GET /status, reports current_plan = currentPlan
CrownHandleStatus == CrownAnswer("handleStatus", currentPlan)
\* handleHealth(): GET /health
CrownHandleHealth == CrownAnswer("handleHealth", "OK")
\* handleVersion(): GET /version
CrownHandleVersion == CrownAnswer("handleVersion", "")
\* handleOTAStatus(): GET /ota-status
CrownHandleOTAStatus ==
    CrownAnswer("handleOTAStatus", IF otaInProgress THEN "busy" ELSE "free")
\* handleNotFound(): any other route, answered 404
CrownHandleNotFound == CrownAnswer("handleNotFound", "404")

\* POST /ota that marks an update as started when it accepts
CrownHandleOTAStarts ==
    /\ dev = "crown" /\ pc = "http"
    /\ pc' = "wifi"
    /\ ev' = Ev(IF otaInProgress THEN "handleOTA409" ELSE "handleOTA200", "")
    /\ otaInProgress' = TRUE
    /\ UNCHANGED <<dev, station,
                   now, ledController, leds, tickSetPlans,
                   trueElapsed, currentPlan,
                   wifiConnected, lastWiFiCheck, lastStatusUpdate,
                   otaStartTime, otaPrevPlan, otaProgress>>

\* handleOTA(): POST /ota
CrownHandleOTA ==
    /\ dev = "crown" /\ pc = "http"
    /\ pc' = "wifi"
    /\ ev' = Ev(IF otaInProgress THEN "handleOTA409" ELSE "handleOTA200", "")
    /\ UNCHANGED <<dev, station,
                   now, ledController, leds, tickSetPlans,
                   trueElapsed, mainVars>>

\* the body shared by every crown handler that switches the plan
CrownSwitch(p) ==
    /\ currentPlan' = p
    /\ ledController' = CrownSetPlan(ledController, p, now)
    /\ tickSetPlans' = tickSetPlans + 1
    /\ trueElapsed' = 0
    /\ UNCHANGED leds

\* handleIdle()
CrownHandleIdle ==
    /\ dev = "crown" /\ pc = "http"
    /\ CrownSwitch(PLAN_IDLE)
    /\ pc' = "wifi"
    /\ ev' = Ev("handleIdle", "")
    /\ UNCHANGED <<dev, station,
                   now, wifiConnected, lastWiFiCheck, lastStatusUpdate,
                   otaInProgress, otaStartTime, otaPrevPlan, otaProgress>>

\* handleButton() that leaves a running Button plan alone
CrownHandleButtonNoRestart ==
    /\ dev = "crown" /\ pc = "http"
    /\ IF ledController.currentPlan = PLAN_BUTTON
       THEN UNCHANGED planVars
       ELSE CrownSwitch(PLAN_BUTTON)
    /\ pc' = "wifi"
    /\ ev' = Ev("handleButton", "")
    /\ UNCHANGED <<dev, station,
                   now, wifiConnected, lastWiFiCheck, lastStatusUpdate,
                   otaInProgress, otaStartTime, otaPrevPlan, otaProgress>>

\* handleButton()
CrownHandleButton ==
    /\ dev = "crown" /\ pc = "http"
    /\ CrownSwitch(PLAN_BUTTON)
    /\ pc' = "wifi"
    /\ ev' = Ev("handleButton", "")
    /\ UNCHANGED <<dev, station,
                   now, wifiConnected, lastWiFiCheck, lastStatusUpdate,
                   otaInProgress, otaStartTime, otaPrevPlan, otaProgress>>

\* station request bodies.  parses = FALSE is a body deserializeJson rejects;
\* Absent marks a key the document does not have.
Absent == "<absent>"
KnownColors == {"red", "green", "blue", "yellow", "white"}

ColorPayloads ==
    [parses : {TRUE}, station_id : {1, 4}, station_name : {"station-1"},
     color : KnownColors \cup {"purple", Absent}, timestamp : {0, 777}]
    \cup
    [parses : {FALSE}, station_id : {1}, station_name : {"station-1"},
     color : {Absent}, timestamp : {0}]

\* doc["color"] | "unknown"
ColorOr(body) == IF body.color = Absent THEN "unknown" ELSE body.color

\* the chain with the yellow branch sending to Idle
StationColorPlanYellowIdle(color) ==
    IF color = "red" THEN PLAN_BUTTON
    ELSE IF color = "green" THEN PLAN_IDLE
    ELSE IF color = "blue" THEN PLAN_WIFI_FALLBACK
    ELSE IF color = "yellow" THEN PLAN_IDLE
    ELSE IF color = "white" THEN PLAN_IDLE
    ELSE "none"

\* the if / else-if chain of handleStationColor(): the plan the colour
\* selects, or "none" when no branch matches
StationColorPlan(color) ==
    IF color = "red" THEN PLAN_BUTTON
    ELSE IF color = "green" THEN PLAN_IDLE
    ELSE IF color = "blue" THEN PLAN_WIFI_FALLBACK
    ELSE IF color = "yellow" THEN PLAN_BUTTON
    ELSE IF color = "white" THEN PLAN_IDLE
    ELSE "none"

\* handleStationColor() on request body `body`
handleStationColor(body) ==
    /\ IF ~body.parses
       THEN /\ ev' = Ev("stationColor400", "")
            /\ UNCHANGED planVars
       ELSE LET color == ColorOr(body)
                p == StationColorPlan(color)
            IN  /\ IF p = "none"
                   THEN UNCHANGED planVars
                   ELSE CrownSwitch(p)
                /\ ev' = Ev("stationColor200", color)
    /\ pc' = "wifi"
    /\ UNCHANGED <<dev, now, wifiConnected, lastWiFiCheck, lastStatusUpdate,
                   otaInProgress, otaStartTime, otaPrevPlan, otaProgress>>

CrownHandleStationColor ==
    /\ dev = "crown" /\ pc = "http"
    /\ \E body \in ColorPayloads : handleStationColor(body)
    /\ UNCHANGED station

\* colors: the array under "colors"; hasColors = FALSE when the key is
\* missing (or is not an array), in which case doc["colors"] is a null
\* JsonArray
MixedPayloads ==
    [parses : {TRUE}, station_id : {1, 4}, station_name : {"station-1"},
     hasColors : {TRUE},
     colors : {<<>>, <<"green">>, <<"red", "blue">>,
               <<"green", "white", "blue">>},
     timestamp : {0, 777}]
    \cup
    [parses : BOOLEAN, station_id : {1}, station_name : {"station-1"},
     hasColors : {FALSE}, colors : {<<>>}, timestamp : {0}]

\* the name recorded in ev for a colour list
ColorsTag(cs) ==
    IF Len(cs) = 0 THEN "[]"
    ELSE IF Len(cs) = 1 THEN "[1]"
    ELSE IF Len(cs) = 2 THEN "[2]" ELSE "[3+]"

\* the mixed-colour handler choosing the plan from the first colour
handleStationMixedColorByFirst(body) ==
    /\ IF ~body.parses
       THEN /\ ev' = Ev("stationMixed400", "json")
            /\ UNCHANGED planVars
       ELSE IF ~body.hasColors
       THEN /\ ev' = Ev("stationMixed400", "nocolors")
            /\ UNCHANGED planVars
       ELSE /\ CrownSwitch(IF Len(body.colors) = 0 THEN PLAN_BUTTON
                           ELSE StationColorPlan(body.colors[1]))
            /\ ev' = Ev("stationMixed200", ColorsTag(body.colors))
    /\ pc' = "wifi"
    /\ UNCHANGED <<dev, now, wifiConnected, lastWiFiCheck, lastStatusUpdate,
                   otaInProgress, otaStartTime, otaPrevPlan, otaProgress>>

\* handleStationMixedColor() on request body `body`
handleStationMixedColor(body) ==
    /\ IF ~body.parses
       THEN /\ ev' = Ev("stationMixed400", "json")
            /\ UNCHANGED planVars
       ELSE IF ~body.hasColors
       THEN /\ ev' = Ev("stationMixed400", "nocolors")
            /\ UNCHANGED planVars
       ELSE /\ CrownSwitch(PLAN_BUTTON)
            /\ ev' = Ev("stationMixed200", ColorsTag(body.colors))
    /\ pc' = "wifi"
    /\ UNCHANGED <<dev, now, wifiConnected, lastWiFiCheck, lastStatusUpdate,
                   otaInProgress, otaStartTime, otaPrevPlan, otaProgress>>

CrownHandleStationMixedColor ==
    /\ dev = "crown" /\ pc = "http"
    /\ \E body \in MixedPayloads : handleStationMixedColor(body)
    /\ UNCHANGED station

\* checkWiFiConnection() without the tests of otaInProgress
checkWiFiConnectionNoOtaTest(connected) ==
    IF connected
    THEN IF ~wifiConnected
         THEN /\ wifiConnected' = TRUE
              /\ IF currentPlan # PLAN_BUTTON
                 THEN CrownSwitch(PLAN_IDLE)
                 ELSE UNCHANGED planVars
              /\ ev' = Ev("wifiRegained", "")
         ELSE /\ UNCHANGED <<wifiConnected, planVars>>
              /\ ev' = Ev("wifiSame", "")
    ELSE IF wifiConnected
         THEN /\ wifiConnected' = FALSE
              /\ IF currentPlan # PLAN_BUTTON
                 THEN CrownSwitch(PLAN_WIFI_FALLBACK)
                 ELSE UNCHANGED planVars
              /\ ev' = Ev("wifiLost", "")
         ELSE /\ UNCHANGED <<wifiConnected, planVars>>
              /\ ev' = Ev("wifiSame", "")

\* the connectivity check that records a regain without switching the plan
checkWiFiConnectionNoIdle(connected) ==
    IF connected
    THEN IF ~wifiConnected
         THEN /\ wifiConnected' = TRUE
              /\ UNCHANGED planVars
              /\ ev' = Ev("wifiRegained", "")
         ELSE /\ UNCHANGED <<wifiConnected, planVars>>
              /\ ev' = Ev("wifiSame", "")
    ELSE IF wifiConnected
         THEN /\ wifiConnected' = FALSE
              /\ IF currentPlan # PLAN_BUTTON /\ ~otaInProgress
                 THEN CrownSwitch(PLAN_WIFI_FALLBACK)
                 ELSE UNCHANGED planVars
              /\ ev' = Ev("wifiLost", "")
         ELSE /\ UNCHANGED <<wifiConnected, planVars>>
              /\ ev' = Ev("wifiSame", "")

\* checkWiFiConnection(), connected = (WiFi.status() == WL_CONNECTED)
checkWiFiConnection(connected) ==
    IF connected
    THEN IF ~wifiConnected
         THEN /\ wifiConnected' = TRUE
              /\ IF currentPlan # PLAN_BUTTON /\ ~otaInProgress
                 THEN CrownSwitch(PLAN_IDLE)
                 ELSE UNCHANGED planVars
              /\ ev' = Ev("wifiRegained", "")
         ELSE /\ UNCHANGED <<wifiConnected, planVars>>
              /\ ev' = Ev("wifiSame", "")
    ELSE IF wifiConnected
         THEN /\ wifiConnected' = FALSE
              /\ IF currentPlan # PLAN_BUTTON /\ ~otaInProgress
                 THEN CrownSwitch(PLAN_WIFI_FALLBACK)
                 ELSE UNCHANGED planVars
              /\ ev' = Ev("wifiLost", "")
         ELSE /\ UNCHANGED <<wifiConnected, planVars>>
              /\ ev' = Ev("wifiSame", "")

\* the periodic check calling the variant without the otaInProgress tests
CrownWifiStepNoOtaTest ==
    /\ dev = "crown" /\ pc = "wifi"
    /\ IF UGt(USub(now, lastWiFiCheck), WIFI_CHECK_INTERVAL)
       THEN /\ \E connected \in BOOLEAN :
                 checkWiFiConnectionNoOtaTest(connected)
            /\ lastWiFiCheck' = now
       ELSE /\ ev' = Ev("wifiSkip", "")
            /\ UNCHANGED <<wifiConnected, planVars, lastWiFiCheck>>
    /\ pc' = "update"
    /\ UNCHANGED <<dev, station,
                   now, lastStatusUpdate, otaInProgress, otaStartTime,
                   otaPrevPlan, otaProgress>>

\* loop(): the periodic connectivity check
CrownWifiStep ==
    /\ dev = "crown" /\ pc = "wifi"
    /\ IF UGt(USub(now, lastWiFiCheck), WIFI_CHECK_INTERVAL)
       THEN /\ \E connected \in BOOLEAN : checkWiFiConnection(connected)
            /\ lastWiFiCheck' = now
       ELSE /\ ev' = Ev("wifiSkip", "")
            /\ UNCHANGED <<wifiConnected, planVars, lastWiFiCheck>>
    /\ pc' = "update"
    /\ UNCHANGED <<dev, station,
                   now, lastStatusUpdate, otaInProgress, otaStartTime,
                   otaPrevPlan, otaProgress>>

\* the update step with a Button renderer that moves to the next
\* sub-pattern on every tick
CrownUpdateStepPatternPerTick ==
    /\ dev = "crown" /\ pc = "update"
    /\ ledController' =
         LET r == CrownUpdate(ledController, now)
         IN  IF r.currentPlan = PLAN_BUTTON
             THEN [r EXCEPT !.partyPattern =
                               (ledController.partyPattern + 1) % 4]
             ELSE r
    /\ leds' = CrownLeds(ledController, now, leds)
    /\ tickSetPlans' = IF ledController.currentPlan
                            = ledController'.currentPlan
                       THEN tickSetPlans ELSE tickSetPlans + 1
    /\ trueElapsed' = IF ledController.currentPlan
                            = ledController'.currentPlan
                          THEN trueElapsed ELSE 0
    /\ ev' = Ev(IF ledController.currentPlan = ledController'.currentPlan
                THEN "update" ELSE "expired", ledController.currentPlan)
    /\ pc' = "show"
    /\ UNCHANGED <<dev, station, now, mainVars>>

\* loop(): ledController.update()
CrownUpdateStep ==
    /\ dev = "crown" /\ pc = "update"
    /\ ledController' = CrownUpdate(ledController, now)
    /\ leds' = CrownLeds(ledController, now, leds)
    /\ tickSetPlans' = IF ledController.currentPlan
                            = ledController'.currentPlan
                       THEN tickSetPlans ELSE tickSetPlans + 1
    /\ trueElapsed' = IF ledController.currentPlan
                            = ledController'.currentPlan
                          THEN trueElapsed ELSE 0
    /\ ev' = Ev(IF ledController.currentPlan = ledController'.currentPlan
                THEN "update" ELSE "expired", ledController.currentPlan)
    /\ pc' = "show"
    /\ UNCHANGED <<dev, station, now, mainVars>>

\* loop(): FastLED.show(), the status print and delay(20); the iteration
\* ends d ms after it began, and the clock has advanced by d modulo 2^32.
\* The behaviour stops where the clock, as the state holds it, would pass
\* maxTime.
ShowAndDelay(deltas, maxTime) ==
    /\ pc = "show"
    /\ lastStatusUpdate' = IF UGt(USub(now, lastStatusUpdate), STATUS_INTERVAL)
                           THEN now ELSE lastStatusUpdate
    /\ \E d \in deltas :
         /\ now + d <= maxTime
         /\ now' = UAdd(now, d)
         /\ trueElapsed' = IF ledController.currentPlan \in TimedPlans
                           THEN trueElapsed + d ELSE trueElapsed
    /\ tickSetPlans' = 0
    /\ ev' = Ev("show", "")
    /\ UNCHANGED <<dev, station,
                   ledController, leds, currentPlan, wifiConnected,
                   lastWiFiCheck, otaInProgress, otaStartTime, otaPrevPlan,
                   otaProgress>>

CrownShowStep ==
    /\ dev = "crown"
    /\ ShowAndDelay(CrownDeltas, CrownMaxTime)
    /\ pc' = "ota"

\* a periodic check that acts on the connectivity it finds, not on its
\* change: offline with Idle active it switches to WifiFallback, online
\* with WifiFallback active to Idle
CrownWifiStepLevel ==
    /\ dev = "crown" /\ pc = "wifi"
    /\ IF UGt(USub(now, lastWiFiCheck), WIFI_CHECK_INTERVAL)
       THEN /\ \E connected \in BOOLEAN :
                 LET p == IF connected THEN PLAN_IDLE
                                       ELSE PLAN_WIFI_FALLBACK
                 IN  /\ wifiConnected' = connected
                     /\ IF getCurrentPlan(ledController)
                              \notin {PLAN_BUTTON, p}
                           /\ ~otaInProgress
                        THEN CrownSwitch(p)
                        ELSE UNCHANGED planVars
                     /\ ev' = Ev(IF connected = wifiConnected
                                 THEN "wifiSame"
                                 ELSE IF connected THEN "wifiRegained"
                                                   ELSE "wifiLost", "")
            /\ lastWiFiCheck' = now
       ELSE /\ ev' = Ev("wifiSkip", "")
            /\ UNCHANGED <<wifiConnected, planVars, lastWiFiCheck>>
    /\ pc' = "update"
    /\ UNCHANGED <<dev, station,
                   now, lastStatusUpdate, otaInProgress, otaStartTime,
                   otaPrevPlan, otaProgress>>

\* the crown with the level-triggered check
CrownNextLevelTriggered ==
    \/ CrownSetup
    \/ CrownOtaIdle
    \/ CrownOnStart
    \/ CrownOnProgress
    \/ CrownOnEnd
    \/ CrownOnError
    \/ CrownHttpIdle
    \/ CrownHandleIdle
    \/ CrownHandleButton
    \/ CrownHandleStationColor
    \/ CrownHandleStationMixedColor
    \/ CrownHandleOTA
    \/ CrownHandleStatus
    \/ CrownHandleHealth
    \/ CrownHandleVersion
    \/ CrownHandleOTAStatus
    \/ CrownHandleNotFound
    \/ CrownWifiStepLevel
    \/ CrownUpdateStep
    \/ CrownShowStep

\* setup() and loop() of the crown
CrownNext ==
    \/ CrownSetup
    \/ CrownOtaIdle
    \/ CrownOnStart
    \/ CrownOnProgress
    \/ CrownOnEnd
    \/ CrownOnError
    \/ CrownHttpIdle
    \/ CrownHandleIdle
    \/ CrownHandleButton
    \/ CrownHandleStationColor
    \/ CrownHandleStationMixedColor
    \/ CrownHandleOTA
    \/ CrownHandleStatus
    \/ CrownHandleHealth
    \/ CrownHandleVersion
    \/ CrownHandleOTAStatus
    \/ CrownHandleNotFound
    \/ CrownWifiStep
    \/ CrownUpdateStep
    \/ CrownShowStep

----------------------------------------------------------------------------
(* stage: LEDPlans (esps/stage/src/led_plans.cpp) *)

STAGE_NUM_LEDS == 100
SKIP_WHITE_1 == 150
SKIP_BLACK_1 == 300
SKIP_WHITE_2 == 450
SKIP_DURATION == 600

\* LEDPlans::LEDPlans(); idlePulseStep, showPulseStep and specialPulseStep
\* are the function-local statics `pulseStep` of updateIdle(), updateShow()
\* and updateSpecial()
StageLEDPlans ==
    [currentPlan |-> PLAN_IDLE, lastUpdate |-> 0, animationStep |-> 0,
     hue |-> 0, brightness |-> BRIGHTNESS,
     idleHue |-> 0, idleBrightness |-> 50,
     skipStartTime |-> 0, skipActive |-> FALSE,
     showPattern |-> 0, showSpeed |-> 0,
     specialEffect |-> 0, specialStartTime |-> 0,
     idlePulseStep |-> 0, showPulseStep |-> 0, specialPulseStep |-> 0]

\* setPlan that does not record the start time of Skip
StageSetPlanNoSkipStart(led, plan, t) ==
    LET base == [led EXCEPT !.currentPlan = plan,
                            !.animationStep = 0,
                            !.lastUpdate = t]
    IN  CASE plan = PLAN_IDLE ->
                [base EXCEPT !.idleHue = 0, !.idleBrightness = 50]
          [] plan = PLAN_SKIP ->
                [base EXCEPT !.skipActive = TRUE]
          [] plan = PLAN_SHOW ->
                [base EXCEPT !.showPattern = 0, !.showSpeed = 0]
          [] plan = PLAN_SPECIAL ->
                [base EXCEPT !.specialEffect = 0, !.specialStartTime = t]

\* LEDPlans::setPlan(plan), called when millis() = t
StageSetPlan(led, plan, t) ==
    LET base == [led EXCEPT !.currentPlan = plan,
                            !.animationStep = 0,
                            !.lastUpdate = t]
    IN  CASE plan = PLAN_IDLE ->
                [base EXCEPT !.idleHue = 0, !.idleBrightness = 50]
          [] plan = PLAN_SKIP ->
                [base EXCEPT !.skipStartTime = t, !.skipActive = TRUE]
          [] plan = PLAN_SHOW ->
                [base EXCEPT !.showPattern = 0, !.showSpeed = 0]
          [] plan = PLAN_SPECIAL ->
                [base EXCEPT !.specialEffect = 0, !.specialStartTime = t]

\* LEDPlans::updateIdle()
StageUpdateIdle(led) ==
    LET s == U8(led.idlePulseStep + 1)
    IN  [led EXCEPT !.idlePulseStep = IF s > 127 THEN 0 ELSE s]

\* updateSkip without the last black phase: Idle from 450 ms on
StageUpdateSkipShort(led, t) ==
    LET elapsed == USub(t, led.skipStartTime)
    IN  IF ULt(elapsed, SKIP_WHITE_1) THEN led
        ELSE IF ULt(elapsed, SKIP_BLACK_1) THEN led
        ELSE IF ULt(elapsed, SKIP_WHITE_2) THEN led
        ELSE StageSetPlan([led EXCEPT !.currentPlan = PLAN_IDLE], PLAN_IDLE, t)

\* LEDPlans::updateSkip(), millis() = t
StageUpdateSkip(led, t) ==
    LET elapsed == USub(t, led.skipStartTime)
    IN  IF ULt(elapsed, SKIP_WHITE_1) THEN led
        ELSE IF ULt(elapsed, SKIP_BLACK_1) THEN led
        ELSE IF ULt(elapsed, SKIP_WHITE_2) THEN led
        ELSE IF ULt(elapsed, SKIP_DURATION) THEN led
        ELSE StageSetPlan([led EXCEPT !.currentPlan = PLAN_IDLE], PLAN_IDLE, t)

\* updateShow() that ends the Show plan when its pulse wraps
StageUpdateShowEndsAtWrap(led) ==
    LET s == U8(led.showPulseStep + 1)
    IN  IF s > 85
        THEN [led EXCEPT !.showPulseStep = 0, !.currentPlan = PLAN_IDLE]
        ELSE [led EXCEPT !.showPulseStep = s]

\* LEDPlans::updateShow()
StageUpdateShow(led) ==
    LET s == U8(led.showPulseStep + 1)
    IN  [led EXCEPT !.showPulseStep = IF s > 85 THEN 0 ELSE s]

\* LEDPlans::updateSpecial()
StageUpdateSpecial(led) ==
    LET s == U8(led.specialPulseStep + 1)
    IN  [led EXCEPT !.specialPulseStep = IF s > 127 THEN 0 ELSE s]

\* update() that does not run the Skip timer
StageUpdateNoSkipTimer(led, t) ==
    LET r == CASE led.currentPlan = PLAN_IDLE -> StageUpdateIdle(led)
               [] led.currentPlan = PLAN_SKIP -> led
               [] led.currentPlan = PLAN_SHOW -> StageUpdateShow(led)
               [] led.currentPlan = PLAN_SPECIAL -> StageUpdateSpecial(led)
    IN  [r EXCEPT !.lastUpdate = t]

\* LEDPlans::update(), millis() = t
StageUpdate(led, t) ==
    LET r == CASE led.currentPlan = PLAN_IDLE -> StageUpdateIdle(led)
               [] led.currentPlan = PLAN_SKIP -> StageUpdateSkip(led, t)
               [] led.currentPlan = PLAN_SHOW -> StageUpdateShow(led)
               [] led.currentPlan = PLAN_SPECIAL -> StageUpdateSpecial(led)
    IN  [r EXCEPT !.lastUpdate = t]

\* update() whose Skip renderer flashes white once only
StageLedsOneFlash(led, t, buf) ==
    CASE led.currentPlan = PLAN_IDLE ->
             Frame("updateIdle", "green", U8(U8(led.idlePulseStep + 1) * 2))
      [] led.currentPlan = PLAN_SKIP ->
             LET elapsed == USub(t, led.skipStartTime)
             IN  IF ULt(elapsed, SKIP_WHITE_1)
                 THEN Frame("updateSkip", "White", 0)
                 ELSE IF ULt(elapsed, SKIP_DURATION)
                 THEN Frame("updateSkip", "Black", 0)
                 ELSE buf
      [] led.currentPlan = PLAN_SHOW ->
             Frame("updateShow", "red", U8(U8(led.showPulseStep + 1) * 3))
      [] led.currentPlan = PLAN_SPECIAL ->
             Frame("updateSpecial", "blue",
                   U8(U8(led.specialPulseStep + 1) * 2))

\* what LEDPlans::update() leaves in the pixel buffer buf, millis() = t;
\* the last branch of updateSkip writes no pixel
StageLeds(led, t, buf) ==
    CASE led.currentPlan = PLAN_IDLE ->
             Frame("updateIdle", "green", U8(U8(led.idlePulseStep + 1) * 2))
      [] led.currentPlan = PLAN_SKIP ->
             LET elapsed == USub(t, led.skipStartTime)
             IN  IF ULt(elapsed, SKIP_WHITE_1)
                 THEN Frame("updateSkip", "White", 0)
                 ELSE IF ULt(elapsed, SKIP_BLACK_1)
                 THEN Frame("updateSkip", "Black", 0)
                 ELSE IF ULt(elapsed, SKIP_WHITE_2)
                 THEN Frame("updateSkip", "White", 0)
                 ELSE IF ULt(elapsed, SKIP_DURATION)
                 THEN Frame("updateSkip", "Black", 0)
                 ELSE buf
      [] led.currentPlan = PLAN_SHOW ->
             Frame("updateShow", "red", U8(U8(led.showPulseStep + 1) * 3))
      [] led.currentPlan = PLAN_SPECIAL ->
             Frame("updateSpecial", "blue",
                   U8(U8(led.specialPulseStep + 1) * 2))

\* the indices of leds[] that LEDPlans::update() writes, millis() = t:
\* every renderer of the stage fills the strip with setAllLeds
StageWrites(led, t) ==
    IF led.currentPlan = PLAN_SKIP
         /\ ~ULt(USub(t, led.skipStartTime), SKIP_DURATION)
    THEN {}
    ELSE AllLeds(STAGE_NUM_LEDS)

----------------------------------------------------------------------------
(* stage: main.cpp *)

\* setup() of the stage: no plan is set, the constructor's Idle stays
StageSetup ==
    /\ dev = "stage" /\ pc = "setup"
    /\ \E o \in WifiOutcomes :
         /\ now' = now + o[1] * WIFI_ATTEMPT_DELAY
         /\ wifiConnected' = o[2]
    /\ pc' = "http"
    /\ ev' = Ev("setup", "")
    /\ leds' = clearAll
    /\ UNCHANGED <<dev, station, ledController, tickSetPlans,
                   trueElapsed, currentPlan,
                   lastWiFiCheck, lastStatusUpdate, otaInProgress,
                   otaStartTime, otaPrevPlan, otaProgress>>

\* server.handleClient() with no request pending
StageHttpIdle ==
    /\ dev = "stage" /\ pc = "http"
    /\ pc' = "update"
    /\ ev' = Ev("httpNone", "")
    /\ UNCHANGED <<dev, station,
                   now, ledController, leds, tickSetPlans,
                   trueElapsed, mainVars>>

\* handlers that do not interrupt a running Skip
StageSwitchKeepSkip(p, name) ==
    /\ dev = "stage" /\ pc = "http"
    /\ IF ledController.currentPlan = PLAN_SKIP
       THEN UNCHANGED planVars
       ELSE /\ currentPlan' = p
            /\ ledController' = StageSetPlan(ledController, p, now)
            /\ tickSetPlans' = tickSetPlans + 1
            /\ trueElapsed' = 0
            /\ UNCHANGED leds
    /\ pc' = "update"
    /\ ev' = Ev(name, "")
    /\ UNCHANGED <<dev, station,
                   now, wifiConnected, lastWiFiCheck, lastStatusUpdate,
                   otaInProgress, otaStartTime, otaPrevPlan, otaProgress>>

\* the body shared by the four plan handlers of the stage
StageSwitch(p, name) ==
    /\ dev = "stage" /\ pc = "http"
    /\ currentPlan' = p
    /\ ledController' = StageSetPlan(ledController, p, now)
    /\ tickSetPlans' = tickSetPlans + 1
    /\ trueElapsed' = 0
    /\ UNCHANGED leds
    /\ pc' = "update"
    /\ ev' = Ev(name, "")
    /\ UNCHANGED <<dev, station,
                   now, wifiConnected, lastWiFiCheck, lastStatusUpdate,
                   otaInProgress, otaStartTime, otaPrevPlan, otaProgress>>

\* handleIdle()
StageHandleIdle == StageSwitch(PLAN_IDLE, "handleIdle")
\* handleSkip()
StageHandleSkip == StageSwitch(PLAN_SKIP, "handleSkip")
\* handleShow()
StageHandleShow == StageSwitch(PLAN_SHOW, "handleShow")
\* handleSpecial()
StageHandleSpecial == StageSwitch(PLAN_SPECIAL, "handleSpecial")

\* loop(): ledController.update()
StageUpdateStep ==
    /\ dev = "stage" /\ pc = "update"
    /\ ledController' = StageUpdate(ledController, now)
    /\ leds' = StageLeds(ledController, now, leds)
    /\ tickSetPlans' = IF ledController.currentPlan
                            = ledController'.currentPlan
                       THEN tickSetPlans ELSE tickSetPlans + 1
    /\ trueElapsed' = IF ledController.currentPlan
                            = ledController'.currentPlan
                          THEN trueElapsed ELSE 0
    /\ ev' = Ev(IF ledController.currentPlan = ledController'.currentPlan
                THEN "update" ELSE "expired", ledController.currentPlan)
    /\ pc' = "show"
    /\ UNCHANGED <<dev, station, now, mainVars>>

StageShowStep ==
    /\ dev = "stage"
    /\ ShowAndDelay(StageDeltas, StageMaxTime)
    /\ pc' = "http"

StageNext ==
    \/ StageSetup
    \/ StageHttpIdle
    \/ StageHandleIdle
    \/ StageHandleSkip
    \/ StageHandleShow
    \/ StageHandleSpecial
    \/ StageUpdateStep
    \/ StageShowStep

----------------------------------------------------------------------------
(* button device: LEDPlans.  The class is declared in led_plans.h of the   *)
(* button firmware, which is not among the sources; it is modelled from   *)
(* the design text: setPlan replaces the plan and resets the plan state   *)
(* (activation time = now, counters zero); a tick of a bounded plan whose *)
(* duration has elapsed switches to Idle before rendering; Skip is the    *)
(* bounded plan (600 ms).                                                  *)

ButtonLEDPlans == [currentPlan |-> PLAN_IDLE, activatedAt |-> 0, step |-> 0]

ButtonSetPlan(led, plan, t) ==
    [currentPlan |-> plan, activatedAt |-> t, step |-> 0]

ButtonUpdate(led, t) ==
    IF led.currentPlan = PLAN_SKIP
         /\ ~ULt(USub(t, led.activatedAt), SKIP_DURATION)
    THEN ButtonSetPlan(led, PLAN_IDLE, t)
    ELSE [led EXCEPT !.step = IF led.step + 1 > 127 THEN 0 ELSE led.step + 1]

\* the frame of a tick: drawn by the renderer of the plan that is active
\* once expiry has been handled
ButtonLeds(led, t, buf) ==
    LET after == ButtonUpdate(led, t)
    IN  Frame("update", after.currentPlan, after.step)

----------------------------------------------------------------------------
(* button device: esps/button/src/main.cpp *)

\* setup()
ButtonSetup ==
    /\ dev = "button" /\ pc = "setup"
    /\ \E o \in WifiOutcomes :
         /\ now' = now + o[1] * WIFI_ATTEMPT_DELAY
         /\ wifiConnected' = o[2]
    /\ pc' = "ota"
    /\ ev' = Ev("setup", "")
    /\ leds' = clearAll
    /\ UNCHANGED <<dev, station, ledController, tickSetPlans,
                   trueElapsed, currentPlan,
                   lastWiFiCheck, lastStatusUpdate, otaInProgress,
                   otaStartTime, otaPrevPlan, otaProgress>>

\* ArduinoOTA.handle() with nothing to deliver
ButtonOtaIdle ==
    /\ dev = "button" /\ pc = "ota"
    /\ pc' = "http"
    /\ ev' = Ev("otaNone", "")
    /\ UNCHANGED <<dev, station,
                   now, ledController, leds, tickSetPlans,
                   trueElapsed, mainVars>>

\* ArduinoOTA.onStart callback
ButtonOnStart ==
    /\ dev = "button" /\ pc = "ota"
    /\ ~otaInProgress
    /\ otaInProgress' = TRUE
    /\ otaStartTime' = now
    /\ otaPrevPlan' = getCurrentPlan(ledController)
    /\ otaProgress' = 0
    /\ currentPlan' = PLAN_IDLE
    /\ ledController' = ButtonSetPlan(ledController, PLAN_IDLE, now)
    /\ tickSetPlans' = tickSetPlans + 1
    /\ trueElapsed' = 0
    /\ UNCHANGED leds
    /\ pc' = "http"
    /\ ev' = Ev("onStart", "")
    /\ UNCHANGED <<dev, station,
                   now, wifiConnected, lastWiFiCheck, lastStatusUpdate>>

\* ArduinoOTA.onProgress callback
ButtonOnProgress ==
    /\ dev = "button" /\ pc = "ota"
    /\ otaInProgress
    /\ \E pr \in ProgressInputs :
         otaProgress' = (pr[1] * 100) \div pr[2]
    /\ pc' = "http"
    /\ ev' = Ev("onProgress", "")
    /\ UNCHANGED <<dev, station, now, planVars, wifiConnected,
                   lastWiFiCheck, lastStatusUpdate, otaInProgress,
                   otaStartTime, otaPrevPlan>>

\* ArduinoOTA.onEnd callback
ButtonOnEnd ==
    /\ dev = "button" /\ pc = "ota"
    /\ otaInProgress
    /\ Reboot
    /\ ledController' = ButtonLEDPlans

\* ArduinoOTA.onError callback
ButtonOnError ==
    /\ dev = "button" /\ pc = "ota"
    /\ otaInProgress' = FALSE
    /\ currentPlan' = PLAN_IDLE
    /\ ledController' = ButtonSetPlan(ledController, PLAN_IDLE, now)
    /\ tickSetPlans' = tickSetPlans + 1
    /\ trueElapsed' = 0
    /\ UNCHANGED leds
    /\ pc' = "http"
    /\ ev' = Ev("onError", "")
    /\ UNCHANGED <<dev, station,
                   now, wifiConnected, lastWiFiCheck, lastStatusUpdate,
                   otaStartTime, otaPrevPlan, otaProgress>>

\* server.handleClient() with no request pending
ButtonHttpIdle ==
    /\ dev = "button" /\ pc = "http"
    /\ pc' = "update"
    /\ ev' = Ev("httpNone", "")
    /\ UNCHANGED <<dev, station,
                   now, ledController, leds, tickSetPlans,
                   trueElapsed, mainVars>>

\* handleOTA(): POST /ota
ButtonHandleOTA ==
    /\ dev = "button" /\ pc = "http"
    /\ pc' = "update"
    /\ ev' = Ev(IF otaInProgress THEN "handleOTA409" ELSE "handleOTA200", "")
    /\ UNCHANGED <<dev, station,
                   now, ledController, leds, tickSetPlans,
                   trueElapsed, mainVars>>

\* the body shared by the four plan handlers of the button device
ButtonSwitch(p, name) ==
    /\ dev = "button" /\ pc = "http"
    /\ currentPlan' = p
    /\ ledController' = ButtonSetPlan(ledController, p, now)
    /\ tickSetPlans' = tickSetPlans + 1
    /\ trueElapsed' = 0
    /\ UNCHANGED leds
    /\ pc' = "update"
    /\ ev' = Ev(name, "")
    /\ UNCHANGED <<dev, station,
                   now, wifiConnected, lastWiFiCheck, lastStatusUpdate,
                   otaInProgress, otaStartTime, otaPrevPlan, otaProgress>>

\* handleIdle()
ButtonHandleIdle == ButtonSwitch(PLAN_IDLE, "handleIdle")
\* handleSkip()
ButtonHandleSkip == ButtonSwitch(PLAN_SKIP, "handleSkip")
\* handleShow()
ButtonHandleShow == ButtonSwitch(PLAN_SHOW, "handleShow")
\* handleSpecial()
ButtonHandleSpecial == ButtonSwitch(PLAN_SPECIAL, "handleSpecial")

\* loop(): ledController.update()
ButtonUpdateStep ==
    /\ dev = "button" /\ pc = "update"
    /\ ledController' = ButtonUpdate(ledController, now)
    /\ leds' = ButtonLeds(ledController, now, leds)
    /\ tickSetPlans' = IF ledController.currentPlan
                            = ledController'.currentPlan
                       THEN tickSetPlans ELSE tickSetPlans + 1
    /\ trueElapsed' = IF ledController.currentPlan
                            = ledController'.currentPlan
                          THEN trueElapsed ELSE 0
    /\ ev' = Ev(IF ledController.currentPlan = ledController'.currentPlan
                THEN "update" ELSE "expired", ledController.currentPlan)
    /\ pc' = "show"
    /\ UNCHANGED <<dev, station, now, mainVars>>

ButtonShowStep ==
    /\ dev = "button"
    /\ ShowAndDelay(ButtonDeltas, ButtonMaxTime)
    /\ pc' = "ota"

ButtonNext ==
    \/ ButtonSetup
    \/ ButtonOtaIdle
    \/ ButtonOnStart
    \/ ButtonOnProgress
    \/ ButtonOnEnd
    \/ ButtonOnError
    \/ ButtonHttpIdle
    \/ ButtonHandleIdle
    \/ ButtonHandleSkip
    \/ ButtonHandleShow
    \/ ButtonHandleSpecial
    \/ ButtonHandleOTA
    \/ ButtonUpdateStep
    \/ ButtonShowStep

----------------------------------------------------------------------------
(* flamingo: esps/flamingo/src/led_plans.cpp and main.cpp.  The four     *)
(* strips are written at the same indices; ledController holds the       *)
(* globals of led_plans.cpp and currentPlan holds currentPattern.         *)

NUM_LEDS_PER_STRIP == 100
IDLE_UPDATE_INTERVAL == 20
MOVING_PATTERN_UPDATE_INTERVAL == 100
PATTERN_IDLE == "PATTERN_IDLE"
PATTERN_MOVING == "PATTERN_MOVING"

\* the globals of led_plans.cpp as initialised at their definitions
FlamingoGlobals ==
    [hue |-> 0, wave |-> 0, lastIdleUpdate |-> 0,
     movingPatternPosition |-> 0, lastMovingPatternUpdate |-> 0]

\* playIdleAnimation(), millis() = t
playIdleAnimation(g, t) ==
    IF ~ULt(USub(t, g.lastIdleUpdate), IDLE_UPDATE_INTERVAL)
    THEN [g EXCEPT !.lastIdleUpdate = t,
                   !.wave = U8(g.wave + 2),
                   !.hue = U8(g.hue + 1)]
    ELSE g

\* playMovingPattern(), millis() = t
playMovingPattern(g, t) ==
    IF ~ULt(USub(t, g.lastMovingPatternUpdate), MOVING_PATTERN_UPDATE_INTERVAL)
    THEN LET q == U8(g.movingPatternPosition + 1)
         IN  [g EXCEPT !.lastMovingPatternUpdate = t,
                       !.movingPatternPosition =
                           IF q >= NUM_LEDS_PER_STRIP THEN 0 ELSE q]
    ELSE g

\* the indices one loop() iteration writes in each strip, millis() = t
FlamingoWrites(g, pattern, t) ==
    CASE pattern = PATTERN_IDLE ->
             IF ~ULt(USub(t, g.lastIdleUpdate), IDLE_UPDATE_INTERVAL)
             THEN AllLeds(NUM_LEDS_PER_STRIP) ELSE {}
      [] pattern = PATTERN_MOVING ->
             IF ~ULt(USub(t, g.lastMovingPatternUpdate),
                     MOVING_PATTERN_UPDATE_INTERVAL)
             THEN AllLeds(NUM_LEDS_PER_STRIP) \cup {g.movingPatternPosition}
             ELSE {}

\* what one loop() iteration leaves in the strips
FlamingoLeds(g, pattern, t, buf) ==
    CASE pattern = PATTERN_IDLE ->
             IF ~ULt(USub(t, g.lastIdleUpdate), IDLE_UPDATE_INTERVAL)
             THEN Frame("playIdleAnimation", "wave", g.wave) ELSE buf
      [] pattern = PATTERN_MOVING ->
             IF ~ULt(USub(t, g.lastMovingPatternUpdate),
                     MOVING_PATTERN_UPDATE_INTERVAL)
             THEN Frame("playMovingPattern", "dot", g.movingPatternPosition)
             ELSE buf

\* power-on of the flamingo
FlamingoBoot ==
    /\ dev = "flamingo"
    /\ pc = "setup"
    /\ now = 0
    /\ currentPlan = PATTERN_MOVING
    /\ ledController = FlamingoGlobals
    /\ wifiConnected = FALSE
    /\ lastWiFiCheck = 0
    /\ lastStatusUpdate = 0
    /\ otaInProgress = FALSE
    /\ otaStartTime = 0
    /\ otaPrevPlan = NoPlan
    /\ otaProgress = 0
    /\ leds = PowerOnFrame
    /\ tickSetPlans = 0
    /\ trueElapsed = 0
    /\ ev = NoEv

\* setup() of the flamingo
FlamingoSetup ==
    /\ dev = "flamingo" /\ pc = "setup"
    /\ leds' = clearAll
    /\ currentPlan' = PATTERN_MOVING
    /\ pc' = "loop"
    /\ ev' = Ev("setup", "")
    /\ UNCHANGED <<dev, station,
                   now, ledController, tickSetPlans,
                   trueElapsed, wifiConnected,
                   lastWiFiCheck, lastStatusUpdate, otaInProgress,
                   otaStartTime, otaPrevPlan, otaProgress>>

\* one iteration of loop() of the flamingo, which takes d ms
FlamingoLoop ==
    /\ dev = "flamingo" /\ pc = "loop"
    /\ ledController' =
         (CASE currentPlan = PATTERN_IDLE ->
                   playIdleAnimation(ledController, now)
            [] currentPlan = PATTERN_MOVING ->
                   playMovingPattern(ledController, now))
    /\ leds' = FlamingoLeds(ledController, currentPlan, now, leds)
    /\ \E d \in FlamingoDeltas :
         /\ now + d <= FlamingoMaxTime
         /\ now' = now + d
    /\ ev' = Ev("loop", "")
    /\ UNCHANGED <<dev, station, pc, currentPlan, tickSetPlans,
                   trueElapsed, wifiConnected,
                   lastWiFiCheck, lastStatusUpdate, otaInProgress,
                   otaStartTime, otaPrevPlan, otaProgress>>

FlamingoNext ==
    \/ FlamingoSetup
    \/ FlamingoLoop

----------------------------------------------------------------------------
(* station (esps/station/src/main.cpp) beside the crown it posts to *)

DEBOUNCE_TIME == 50
STATION_ID == 1
STATION_NAME == "station-1"

\* pin levels; the buttons pull their pin to LOW
HIGH == TRUE
LOW == FALSE

\* buttons[i] and buttonPins[i] belong to buttonColors[i]
buttonColors == <<"red", "green", "blue", "yellow", "white">>

\* ButtonState buttons[5] = {0}
ButtonGlobals ==
    [i \in 1 .. 5 |-> [pressed |-> FALSE, lastState |-> LOW,
                       lastDebounceTime |-> 0, active |-> FALSE]]

\* setupButtons()
setupButtons ==
    [i \in 1 .. 5 |-> [pressed |-> FALSE, lastState |-> HIGH,
                       lastDebounceTime |-> 0, active |-> FALSE]]

\* what a loop() iteration posted: path "none" when it posted nothing
NoCommand ==
    [path |-> "none", action |-> "", color |-> Absent, colors |-> <<>>,
     timestamp |-> 0]

\* the levels on the five pins when nobody touches a button
AllHigh == [i \in 1 .. 5 |-> HIGH]

\* no response to a request: the station is still waiting for it
NoResponse == [code |-> 0, at |-> 0]

\* The station's globals.  millis is the station's own clock when its next
\* step begins and epoch the crown's clock when the station's read 0; pins
\* are the levels on the inputs, changes counts how often they changed;
\* request is the command inside http.POST, response the crown's answer
\* with the crown's clock when it was given, lost the number of requests
\* that failed in a row; sent, passed and loops record what the last
\* loop() did and how many ran, updates how many updates were started; hand
\* names the bounds put on the person at the buttons.  pc = "post": the
\* station is blocked in http.POST; pc = "off": no station takes part.
StationGlobals(p, hand) ==
    [pc |-> p, hand |-> hand, epoch |-> 0, millis |-> 0,
     wifiConnected |-> FALSE,
     lastStatusUpdate |-> 0, lastButtonCheck |-> 0,
     otaInProgress |-> FALSE, otaStartTime |-> 0, otaProgress |-> 0,
     buttons |-> ButtonGlobals, pins |-> AllHigh, changes |-> 0,
     request |-> NoCommand, response |-> NoResponse, lost |-> 0,
     sent |-> NoCommand, passed |-> FALSE, loops |-> 0, updates |-> 0]

StationOff == StationGlobals("off", "none")

\* the body of the for loop of checkButtons() for one button, reading its
\* pin at time t
Debounce(b, reading, t) ==
    LET ldt == IF reading # b.lastState THEN t ELSE b.lastDebounceTime
        settled == UGt(USub(t, ldt), DEBOUNCE_TIME)
        flips == reading # b.pressed /\ settled
    IN  [pressed |-> IF flips THEN reading ELSE b.pressed,
         lastState |-> reading,
         lastDebounceTime |-> ldt,
         active |-> IF flips THEN reading = LOW ELSE b.active]

\* the colours of the active buttons in index order: the array
\* sendMixedColorToFlamingo() builds
ActiveColors(bs) ==
    LET idx == SelectSeq(<<1, 2, 3, 4, 5>>, LAMBDA i : bs[i].active)
    IN  [k \in 1 .. Len(idx) |-> buttonColors[idx[k]]]

\* the mixed command listing the first active colour only
sendMixedColorFirstOnly(bs, connected, t) ==
    IF ~connected THEN NoCommand
    ELSE [path |-> "/station-mixed-color", action |-> "mixed-color",
          color |-> Absent, colors |-> SubSeq(ActiveColors(bs), 1, 1),
          timestamp |-> t]

\* sendColorToFlamingo(color): the request posted, if any
sendColorToFlamingo(color, connected, t) ==
    IF ~connected THEN NoCommand
    ELSE [path |-> "/station-color", action |-> "color", color |-> color,
          colors |-> <<>>, timestamp |-> t]

\* sendMixedColorToFlamingo(): the request posted, if any
sendMixedColorToFlamingo(bs, connected, t) ==
    IF ~connected THEN NoCommand
    ELSE [path |-> "/station-mixed-color", action |-> "mixed-color",
          color |-> Absent, colors |-> ActiveColors(bs), timestamp |-> t]

\* the tail of checkButtons(): count the active buttons and send
CommandFor(bs, connected, t) ==
    LET activeButtons == Cardinality({i \in 1 .. 5 : bs[i].active})
    IN  IF activeButtons = 1
        THEN sendColorToFlamingo(ActiveColors(bs)[1], connected, t)
        ELSE IF activeButtons > 1
        THEN sendMixedColorToFlamingo(bs, connected, t)
        ELSE NoCommand

\* ArduinoOTA.handle() at the top of loop(): the onStart, onProgress or
\* onError callback it runs, if any (onEnd restarts the station, see
\* StationOnEnd); t = millis()
StationOta(st, ota, t) ==
    CASE ota = "start" ->
             [st EXCEPT !.otaInProgress = TRUE, !.otaStartTime = t,
                        !.otaProgress = 0, !.updates = @ + 1]
      [] ota = "progress" -> [st EXCEPT !.otaProgress = (1 * 100) \div 2]
      [] ota = "error" -> [st EXCEPT !.otaInProgress = FALSE]
      [] OTHER -> st

\* loop() from where checkButtons() has returned (due) or was skipped, at
\* t1 = millis(): lastButtonCheck, the status interval and delay(10)
StationLoopEnd(st, due, t1) ==
    [st EXCEPT
       !.pc = "loop",
       !.passed = due,
       !.sent = st.request,
       !.request = NoCommand,
       !.response = NoResponse,
       !.lastButtonCheck = IF due THEN t1 ELSE @,
       !.lastStatusUpdate =
           IF UGt(USub(t1, @), STATUS_INTERVAL) THEN t1 ELSE @,
       !.millis = t1 + 10,
       !.loops = @ + 1]

\* loop() that sends only in the pass in which the active set changed
StationLoopOnChange(st, pins, ota) ==
    LET t == st.millis
        due == UGt(USub(t, st.lastButtonCheck), 10)
        bs == IF due
              THEN [i \in 1 .. 5 |-> Debounce(st.buttons[i], pins[i], t)]
              ELSE st.buttons
        changed == \E i \in 1 .. 5 : bs[i].active # st.buttons[i].active
        cmd == IF due /\ changed
               THEN CommandFor(bs, st.wifiConnected, t) ELSE NoCommand
        top == [StationOta(st, ota, t) EXCEPT
                  !.pins = pins,
                  !.changes = IF pins = st.pins THEN @ ELSE @ + 1,
                  !.buttons = bs,
                  !.request = cmd]
    IN  IF cmd.path = "none" THEN StationLoopEnd(top, due, t)
        ELSE [top EXCEPT !.pc = "post"]

\* loop() of the station with `pins` on the inputs and callback `ota`
\* delivered by ArduinoOTA.handle(), as far as it runs without waiting:
\* checkButtons() runs at t = millis(); when it posts a request the station
\* stays in http.POST (pc = "post") with the buttons already updated and
\* lastButtonCheck not yet written; otherwise the iteration runs to the
\* end of its delay(10).
StationLoop(st, pins, ota) ==
    LET t == st.millis
        due == UGt(USub(t, st.lastButtonCheck), 10)
        bs == IF due
              THEN [i \in 1 .. 5 |-> Debounce(st.buttons[i], pins[i], t)]
              ELSE st.buttons
        cmd == IF due THEN CommandFor(bs, st.wifiConnected, t)
               ELSE NoCommand
        top == [StationOta(st, ota, t) EXCEPT
                  !.pins = pins,
                  !.changes = IF pins = st.pins THEN @ ELSE @ + 1,
                  !.buttons = bs,
                  !.request = cmd]
    IN  IF cmd.path = "none" THEN StationLoopEnd(top, due, t)
        ELSE [top EXCEPT !.pc = "post"]

\* http.POST has returned after the station waited from t to t1: the rest
\* of checkButtons() and of loop()
StationPostReturns(st, t1) ==
    StationLoopEnd([st EXCEPT !.millis = t1], TRUE, t1)

\* The person at the buttons presses one combination at some iteration
\* and may later let go of it as a whole.  "free": any of the 32
\* combinations, within FreeMaxLoops iterations.  "held": one of
\* HeldPatterns, pressed and let go only during the first HeldWindow
\* HeldPatterns, pressed during the first HeldPressLoops iterations, let
\* go during the first HeldWindow iterations and kept from then on.  One
\* firmware update is started, and its callbacks come in the first
\* UpdateWindow iterations.  The network loses at most MaxLost requests in
\* a row.  The crown's clock is followed up to StationMaxTime.
FreeMaxLoops == 9
FreePostTimes == {5, 10}
HeldPressLoops == 2
HeldWindow == 10
HeldPostTimes == {10}
HeldFailTimes == {20}
UpdateWindow == 2
MaxLost == 1
StationMaxTime == 10800
Down(S) == [i \in 1 .. 5 |-> IF i \in S THEN LOW ELSE HIGH]
HeldPatterns == {Down({}), Down({1}), Down({4}), Down({1, 3})}

PinChoices(st) ==
    IF st.hand = "held" /\ st.loops >= HeldWindow THEN {st.pins}
    ELSE IF st.changes = 0
    THEN IF st.hand = "free" THEN [1 .. 5 -> BOOLEAN]
         ELSE IF st.loops < HeldPressLoops THEN HeldPatterns
         ELSE {st.pins}
    ELSE IF st.pins = AllHigh THEN {st.pins}
    ELSE {st.pins, AllHigh}

\* the callbacks ArduinoOTA.handle() may run in the next loop()
OtaChoices(st) ==
    IF st.loops >= UpdateWindow THEN {"none"}
    ELSE IF st.otaInProgress THEN {"none", "progress", "error", "end"}
    ELSE IF st.updates = 0 THEN {"none", "start"}
    ELSE {"none"}

\* how long the answer of the crown takes to reach the station
PostTimes(st) ==
    IF st.hand = "free" THEN FreePostTimes ELSE HeldPostTimes

\* how long a request that fails blocks the station
FailTimes(st) ==
    IF st.hand = "free" THEN FreePostTimes ELSE HeldFailTimes

\* the iterations of loop() that are followed
MayLoop(st) == st.hand = "free" => st.loops < FreeMaxLoops

----------------------------------------------------------------------------
(* The system: one device per behaviour *)

Init ==
    /\ station = StationOff
    /\ \/ Boot("crown") /\ ledController = CrownLEDPlans
       \/ Boot("stage") /\ ledController = StageLEDPlans
       \/ Boot("button") /\ ledController = ButtonLEDPlans

Next ==
    \/ CrownNext
    \/ StageNext
    \/ ButtonNext

Spec == Init /\ [][Next]_vars

----------------------------------------------------------------------------
(* The render loops at their own pace: every loop iteration of the crown  *)
(* and of the stage takes 20 ms (their delay() plus the work), so that    *)
(* every frame of a plan is followed.  Requests are served in the         *)
(* first iteration after setup only; the flamingo runs its loop().        *)

\* no frame has been rendered since setup
FirstIteration == leds = clearAll

CrownTickHandleButton == FirstIteration /\ CrownHandleButton

CrownTickShowStep ==
    /\ dev = "crown"
    /\ ShowAndDelay(CrownTickDeltas, CrownTickMaxTime)
    /\ pc' = "ota"

StageTickHandleSkip == FirstIteration /\ StageHandleSkip
StageTickHandleShow == FirstIteration /\ StageHandleShow
StageTickHandleSpecial == FirstIteration /\ StageHandleSpecial

StageTickShowStep ==
    /\ dev = "stage"
    /\ ShowAndDelay(StageTickDeltas, StageTickMaxTime)
    /\ pc' = "http"

TickInit ==
    /\ station = StationOff
    /\ \/ Boot("crown") /\ ledController = CrownLEDPlans
       \/ Boot("stage") /\ ledController = StageLEDPlans
       \/ FlamingoBoot

TickNext ==
    \/ CrownSetup
    \/ CrownOtaIdle
    \/ CrownHttpIdle
    \/ CrownTickHandleButton
    \/ CrownWifiStep
    \/ CrownUpdateStep
    \/ CrownTickShowStep
    \/ StageSetup
    \/ StageHttpIdle
    \/ StageTickHandleSkip
    \/ StageTickHandleShow
    \/ StageTickHandleSpecial
    \/ StageUpdateStep
    \/ StageTickShowStep
    \/ FlamingoNext

TickSpec == TickInit /\ [][TickNext]_vars

\* loop() is called again as soon as it returns and none of its steps
\* blocks, so a step that can be taken is taken
TickSpecFair == TickSpec /\ WF_vars(TickNext)

----------------------------------------------------------------------------
(* The crown with a station as its client.  The two boards are switched   *)
(* on together and run on their own: every step belongs to one of them    *)
(* and the steps are taken in the order of the times at which they        *)
(* happen, either way round when the times are equal.  A request blocks   *)
(* the station in http.POST until the answer of the crown has reached it  *)
(* or the request has failed; the crown serves a request at the first     *)
(* handleClient() after the millisecond in which it was posted, or in     *)
(* that millisecond already.                                              *)

\* the body the crown's server hands to its handler for a posted command
ColorBody(cmd) ==
    [parses |-> TRUE, station_id |-> STATION_ID,
     station_name |-> STATION_NAME, color |-> cmd.color,
     timestamp |-> cmd.timestamp]
MixedBody(cmd) ==
    [parses |-> TRUE, station_id |-> STATION_ID,
     station_name |-> STATION_NAME, hasColors |-> TRUE,
     colors |-> cmd.colors, timestamp |-> cmd.timestamp]

\* the crown's clock when the station's next step begins
StationAt == station.epoch + station.millis

\* a request is waiting for the crown
RequestWaiting == station.pc = "post" /\ station.response = NoResponse

\* the request was posted no longer ago than one loop iteration of the
\* crown takes: the crown was listening
RequestFresh == \E d \in CrownTickDeltas : now - StationAt <= d

\* nothing the station does comes before the loop iteration the crown is
\* about to begin
CrownTurn ==
    IF station.pc # "post" THEN now <= StationAt
    ELSE IF station.response = NoResponse THEN RequestFresh
    ELSE now <= station.response.at

\* the station's steps leave the crown alone
CrownWaits ==
    UNCHANGED <<dev, pc, now, ledController, leds, tickSetPlans,
                trueElapsed, mainVars>>

\* setup() of the station
StationSetup ==
    /\ dev = "crown"
    /\ station.pc = "setup" /\ StationAt <= now
    /\ \E o \in WifiOutcomes :
         station' = [station EXCEPT
                       !.pc = "loop",
                       !.buttons = setupButtons,
                       !.millis = o[1] * WIFI_ATTEMPT_DELAY,
                       !.wifiConnected = o[2]]
    /\ ev' = Ev("stationSetup", "")
    /\ CrownWaits

\* a loop() of the station whose ArduinoOTA.handle() runs onEnd: the flag
\* is cleared and after delay(3000) ESP.restart() starts the program again
\* from power-on
StationOnEnd ==
    /\ dev = "crown"
    /\ station.pc = "loop" /\ StationAt <= now
    /\ station.otaInProgress /\ "end" \in OtaChoices(station)
    /\ station' = [StationGlobals("setup", station.hand) EXCEPT
                     !.epoch = StationAt + 3000,
                     !.pins = station.pins,
                     !.changes = station.changes,
                     !.loops = station.loops + 1,
                     !.updates = station.updates]
    /\ ev' = Ev("stationRestart", "")
    /\ CrownWaits

\* a loop() of the station that posts nothing
StationLoopQuiet ==
    /\ dev = "crown"
    /\ station.pc = "loop" /\ StationAt <= now /\ MayLoop(station)
    /\ \E pins \in PinChoices(station),
          ota \in OtaChoices(station) \ {"end"} :
         /\ station' = StationLoop(station, pins, ota)
         /\ station'.pc = "loop"
    /\ ev' = Ev("stationLoop", "")
    /\ CrownWaits

\* a loop() of the station as far as http.POST, where it waits
StationPost ==
    /\ dev = "crown"
    /\ station.pc = "loop" /\ StationAt <= now /\ MayLoop(station)
    /\ \E pins \in PinChoices(station),
          ota \in OtaChoices(station) \ {"end"} :
         /\ station' = StationLoop(station, pins, ota)
         /\ station'.pc = "post"
    /\ ev' = Ev("stationPost", station'.request.path)
    /\ CrownWaits

\* http.POST returns the crown's answer, which took r ms to arrive, and
\* loop() runs to its end
StationPostAnswered ==
    /\ dev = "crown"
    /\ station.pc = "post" /\ station.response # NoResponse
    /\ \E r \in PostTimes(station) :
         /\ station.response.at + r <= now
         /\ station' =
              [StationPostReturns(station,
                                  station.response.at - station.epoch + r)
                 EXCEPT !.lost = 0]
    /\ ev' = Ev("stationAnswered", "")
    /\ CrownWaits

\* http.POST returns -1 after b ms: the request never reached the crown
\* (it was lost, or the crown was not listening), and loop() runs to its
\* end
StationPostFailed ==
    /\ dev = "crown"
    /\ RequestWaiting
    /\ station.lost < MaxLost \/ ~RequestFresh
    /\ \E b \in FailTimes(station) :
         station' =
           [StationPostReturns(station, station.millis + b)
              EXCEPT !.lost = IF @ < MaxLost THEN @ + 1 ELSE @]
    /\ ev' = Ev("stationLost", "")
    /\ CrownWaits

\* the crown begins a loop iteration: ArduinoOTA.handle() with nothing to
\* deliver
CrownBeginsIteration == CrownTurn /\ CrownOtaIdle

\* server.handleClient() of the crown while no request has reached it:
\* none is waiting, or the one that is was posted this very millisecond
CrownPassesClient ==
    /\ RequestWaiting => now <= StationAt
    /\ CrownHttpIdle

\* the end of a loop iteration of the crown
CrownStationShowStep ==
    /\ dev = "crown"
    /\ ShowAndDelay(CrownTickDeltas, StationMaxTime)
    /\ pc' = "ota"

\* server.handleClient() of the crown serves the station's request to
\* /station-color and answers 200
CrownServesColor ==
    /\ dev = "crown" /\ pc = "http"
    /\ RequestWaiting
    /\ station.request.path = "/station-color"
    /\ handleStationColor(ColorBody(station.request))
    /\ station' = [station EXCEPT !.response = [code |-> 200, at |-> now]]

\* server.handleClient() of the crown serves the station's request to
\* /station-mixed-color and answers 200
CrownServesMixed ==
    /\ dev = "crown" /\ pc = "http"
    /\ RequestWaiting
    /\ station.request.path = "/station-mixed-color"
    /\ handleStationMixedColor(MixedBody(station.request))
    /\ station' = [station EXCEPT !.response = [code |-> 200, at |-> now]]

StationInit ==
    /\ station = StationGlobals("setup", "free")
    /\ Boot("crown") /\ ledController = CrownLEDPlans

\* both boards were switched on together and the crown has left setup()
\* connected after one wait: it is about to begin its first loop
\* iteration while the station is still in its setup()
HeldInit ==
    /\ station = StationGlobals("setup", "held")
    /\ dev = "crown" /\ pc = "ota"
    /\ now = WIFI_ATTEMPT_DELAY
    /\ wifiConnected = TRUE
    /\ currentPlan = PLAN_IDLE
    /\ ledController = CrownSetPlan(CrownLEDPlans, PLAN_IDLE, now)
    /\ leds = clearAll
    /\ lastWiFiCheck = 0
    /\ lastStatusUpdate = 0
    /\ otaInProgress = FALSE
    /\ otaStartTime = 0
    /\ otaPrevPlan = NoPlan
    /\ otaProgress = 0
    /\ tickSetPlans = 0
    /\ trueElapsed = 0
    /\ ev = Ev("setup", "")

\* the loops of the crown and of the station, the station's requests being
\* the crown's only clients
StationRuns ==
    \/ CrownBeginsIteration
    \/ CrownPassesClient
    \/ CrownServesColor
    \/ CrownServesMixed
    \/ CrownWifiStep
    \/ CrownUpdateStep
    \/ CrownStationShowStep
    \/ StationSetup
    \/ StationOnEnd
    \/ StationLoopQuiet
    \/ StationPost
    \/ StationPostAnswered
    \/ StationPostFailed

StationNext ==
    \/ CrownSetup
    \/ StationRuns

StationSpec == StationInit /\ [][StationNext]_vars

HeldSpec == HeldInit /\ [][StationRuns]_vars

----------------------------------------------------------------------------
(* The crown and the stage when their clock wraps: millis() returns to 0   *)
(* after 2^32 ms, 49.7 days after power-on.  The behaviours start at the   *)
(* top of the loop iteration that begins WrapLead ms before the wrap, on   *)
(* a connected device with no update under way.  The iteration before it   *)
(* began one tick earlier, served POST /idle and drew the first Idle       *)
(* frame; the timers of main.cpp were last written in that iteration or    *)
(* in an earlier one.  /button and /skip are served before the wrap.       *)

WrapLead == 110
WrapCrownMaxTime == 10100
WrapStageMaxTime == 700

\* the clock value 2^32 - WrapLead
WrapStart == Word(HalfWord - 1, HalfWord - WrapLead)

\* how long before the first state loop() wrote lastWiFiCheck and
\* lastStatusUpdate: in the iteration before, or nearly an interval ago
WrapCheckLags == {20, 9960}
WrapStatusLags == {20, 4960}

\* the upper half of the clock is all ones: the wrap is less than 65536 ms
\* ahead
BeforeWrap == Hi(now) = HalfWord - 1

WrapRunning ==
    /\ now = WrapStart
    /\ currentPlan = PLAN_IDLE
    /\ wifiConnected = TRUE
    /\ \E b \in WrapStatusLags : lastStatusUpdate = USub(now, b)
    /\ otaInProgress = FALSE
    /\ otaStartTime = 0
    /\ otaPrevPlan = NoPlan
    /\ otaProgress = 0
    /\ tickSetPlans = 0
    /\ trueElapsed = 0
    /\ ev = Ev("show", "")
    /\ station = StationOff

WrapInit ==
    /\ WrapRunning
    /\ \/ /\ dev = "crown" /\ pc = "ota"
          /\ \E a \in WrapCheckLags : lastWiFiCheck = USub(now, a)
          /\ \E d \in CrownTickDeltas :
               LET t == USub(now, d)
                   served == CrownSetPlan(CrownLEDPlans, PLAN_IDLE, t)
               IN  /\ ledController = CrownUpdate(served, t)
                   /\ leds = CrownLeds(served, t, clearAll)
       \/ /\ dev = "stage" /\ pc = "http"
          /\ lastWiFiCheck = 0
          /\ \E d \in StageTickDeltas :
               LET t == USub(now, d)
                   served == StageSetPlan(StageLEDPlans, PLAN_IDLE, t)
               IN  /\ ledController = StageUpdate(served, t)
                   /\ leds = StageLeds(served, t, clearAll)

CrownWrapHandleButton == BeforeWrap /\ CrownHandleButton

CrownWrapShowStep ==
    /\ dev = "crown"
    /\ ShowAndDelay(CrownTickDeltas, WrapCrownMaxTime)
    /\ pc' = "ota"

StageWrapHandleSkip == BeforeWrap /\ StageHandleSkip

StageWrapShowStep ==
    /\ dev = "stage"
    /\ ShowAndDelay(StageTickDeltas, WrapStageMaxTime)
    /\ pc' = "http"

WrapNext ==
    \/ CrownOtaIdle
    \/ CrownHttpIdle
    \/ CrownWrapHandleButton
    \/ CrownWifiStep
    \/ CrownUpdateStep
    \/ CrownWrapShowStep
    \/ StageHttpIdle
    \/ StageWrapHandleSkip
    \/ StageUpdateStep
    \/ StageWrapShowStep

WrapSpec == WrapInit /\ [][WrapNext]_vars

----------------------------------------------------------------------------
(* Properties *)

planOf == ledController.currentPlan

\* the canonical initial values of each crown plan's animation variables
CanonIdle(led) ==
    led.animationStep = 0 /\ led.haloPulseStep = 0
CanonButton(led, t) ==
    /\ led.animationStep = 0
    /\ led.buttonStartTime = t
    /\ led.partyHue = 0 /\ led.partySpeed = 0 /\ led.partyPattern = 0
CanonFallback(led) ==
    /\ led.animationStep = 0
    /\ led.fallbackPulseStep = 0
    /\ led.runningPixelPos = 0 /\ led.runningPixelHue = 0

Canonical(led, p, t) ==
    /\ led.currentPlan = p
    /\ p = PLAN_IDLE => CanonIdle(led)
    /\ p = PLAN_BUTTON => CanonButton(led, t)
    /\ p = PLAN_WIFI_FALLBACK => CanonFallback(led)

\* the step just executed on the crown ended in a call of setPlan(p)
CrownJustSet(p) ==
    /\ dev = "crown"
    /\ \/ ev.op = "setup"
          /\ p = IF wifiConnected THEN PLAN_IDLE ELSE PLAN_WIFI_FALLBACK
       \/ ev.op = "onStart" /\ p = PLAN_WIFI_FALLBACK
       \/ ev.op = "onError" /\ wifiConnected /\ p = PLAN_IDLE
       \/ ev.op = "handleIdle" /\ p = PLAN_IDLE
       \/ ev.op = "handleButton" /\ p = PLAN_BUTTON
       \/ ev.op = "stationColor200" /\ ev.arg \in {"red", "yellow"}
          /\ p = PLAN_BUTTON
       \/ ev.op = "stationColor200" /\ ev.arg \in {"green", "white"}
          /\ p = PLAN_IDLE
       \/ ev.op = "stationColor200" /\ ev.arg = "blue"
          /\ p = PLAN_WIFI_FALLBACK
       \/ ev.op = "stationMixed200" /\ p = PLAN_BUTTON
       \/ ev.op = "wifiRegained" /\ currentPlan # PLAN_BUTTON
          /\ ~otaInProgress /\ p = PLAN_IDLE
       \/ ev.op = "wifiLost" /\ currentPlan # PLAN_BUTTON
          /\ ~otaInProgress /\ p = PLAN_WIFI_FALLBACK
       \/ ev.op = "expired" /\ p = PLAN_IDLE

\* C1: on the crown, from every reachable state and for every plan p,
\* setPlan(p) leaves getCurrentPlan() = p and p's animation variables at
\* their canonical initial values (Button: start time = now); and every
\* state that a step reached by calling setPlan(p) is such a state.
C1_SetPlanCanonical ==
    dev = "crown" =>
        /\ \A p \in CrownPlans :
             LET after == CrownSetPlan(ledController, p, now)
             IN  getCurrentPlan(after) = p /\ Canonical(after, p, now)
        /\ \A p \in CrownPlans :
             CrownJustSet(p) => Canonical(ledController, p, now)

\* Button was set by a request while counters of all three plans had moved
C1_Witness ==
    /\ dev = "crown" /\ ev.op = "handleButton"
    /\ planOf = PLAN_BUTTON /\ ledController.buttonStartTime = now
    /\ ledController.partySpeed = 0
    /\ ledController.haloPulseStep > 0
    /\ ledController.fallbackPulseStep > 0

\* the plan a device is forced to when an update starts
SafePlan(d) == IF d = "crown" THEN PLAN_WIFI_FALLBACK ELSE PLAN_IDLE

\* the plan state of the active plan is as setPlan leaves it at time t
Fresh(d, led, t) ==
    IF d = "crown" THEN Canonical(led, led.currentPlan, t)
    ELSE led.activatedAt = t /\ led.step = 0

\* C2: the state reached by the update-start callback has the safe plan
\* active (crown: WifiFallback, button device: Idle) in the controller and
\* in currentPlan, that plan's state freshly reset, and otaInProgress set.
C2_UpdateStartForcesSafePlan ==
    ev.op = "onStart" =>
        /\ otaInProgress
        /\ planOf = SafePlan(dev)
        /\ currentPlan = SafePlan(dev)
        /\ Fresh(dev, ledController, now)

\* the update started on the crown while a Button plan set 5 s earlier had
\* been running
C2_Witness ==
    /\ dev = "crown" /\ ev.op = "onStart" /\ otaInProgress
    /\ planOf = PLAN_WIFI_FALLBACK
    /\ ledController.partySpeed > 0
    /\ USub(now, ledController.buttonStartTime) = 5000

\* C3 (as claimed): while otaInProgress is set the active plan is the safe
\* plan - operator commands received during the update have no effect.
C3_CommandsSuppressedDuringUpdate ==
    otaInProgress => planOf = SafePlan(dev)

UpdateStep == pc = "update" /\ pc' = "show"

\* steps that call setPlan from outside the controller
ExternalSetPlanOps ==
    {"setup", "onStart", "onError", "handleIdle", "handleButton",
     "handleSkip", "handleShow", "handleSpecial", "stationColor200",
     "stationMixed200", "wifiRegained", "wifiLost", "boot"}

\* C4: on the crown, a tick (update) of an active Button plan keeps Button
\* when now - buttonStartTime < 10000 and makes Idle the active plan when
\* now - buttonStartTime > 10000; between ticks Button is left only by a
\* step that calls setPlan.
C4_ButtonExpiresAfter10s ==
    [][dev = "crown" /\ planOf = PLAN_BUTTON =>
        LET elapsed == USub(now, ledController.buttonStartTime)
        IN  /\ UpdateStep /\ ULt(elapsed, 10000)
                => ledController'.currentPlan = PLAN_BUTTON
            /\ UpdateStep /\ UGt(elapsed, 10000)
                => ledController'.currentPlan = PLAN_IDLE
            /\ ~UpdateStep /\ ledController'.currentPlan # PLAN_BUTTON
                => ev'.op \in ExternalSetPlanOps]_vars

\* the tick at 10001 ms after setPlan(Button) switched to Idle
C4_Witness ==
    /\ dev = "crown" /\ ev = Ev("expired", PLAN_BUTTON)
    /\ planOf = PLAN_IDLE
    /\ USub(now, ledController.buttonStartTime) = 10001

\* C5: on the stage, a tick of an active Skip plan keeps Skip when
\* now - skipStartTime < 600 and makes Idle the active plan when
\* now - skipStartTime >= 600; between ticks Skip is left only by a step
\* that calls setPlan.
C5_SkipExpiresAt600ms ==
    [][dev = "stage" /\ planOf = PLAN_SKIP =>
        LET elapsed == USub(now, ledController.skipStartTime)
        IN  /\ UpdateStep /\ ULt(elapsed, 600)
                => ledController'.currentPlan = PLAN_SKIP
            /\ UpdateStep /\ ~ULt(elapsed, 600)
                => ledController'.currentPlan = PLAN_IDLE
            /\ ~UpdateStep /\ ledController'.currentPlan # PLAN_SKIP
                => ev'.op \in ExternalSetPlanOps]_vars

\* the tick at 620 ms after setPlan(Skip) switched to Idle
C5_Witness ==
    /\ dev = "stage" /\ ev = Ev("expired", PLAN_SKIP)
    /\ planOf = PLAN_IDLE
    /\ USub(now, ledController.skipStartTime) = 620

\* the bounded plan of a device, its duration and its activation time
BoundedPlan(d) == IF d = "crown" THEN PLAN_BUTTON ELSE PLAN_SKIP
Duration(d) == IF d = "crown" THEN 10000 ELSE 600
ActivatedAt(d, led) ==
    IF d = "crown" THEN led.buttonStartTime ELSE led.skipStartTime

\* a tick changed the plan by itself
Expiry == UpdateStep /\ ledController'.currentPlan # planOf

\* C6: on the crown (Button, 10000 ms) and the stage (Skip, 600 ms): a tick
\* changes the plan only from the bounded plan to Idle and only when the
\* elapsed time has reached the duration; a tick of the bounded plan whose
\* elapsed time exceeds the duration does change it; and the bounded plan
\* becomes active again only through a setPlan that starts a new activation
\* (activation time = now), so no activation expires twice.
C6_ExpiryExactlyOnce ==
    [][(dev \in {"crown", "stage"}) =>
        LET elapsed == USub(now, ActivatedAt(dev, ledController))
            bounded == BoundedPlan(dev)
        IN  /\ Expiry =>
                (/\ planOf = bounded
                 /\ ledController'.currentPlan = PLAN_IDLE
                 /\ ~ULt(elapsed, Duration(dev)))
            /\ (UpdateStep /\ planOf = bounded /\ UGt(elapsed, Duration(dev)))
                => Expiry
            /\ (planOf # bounded /\ ledController'.currentPlan = bounded)
                => (/\ ~UpdateStep
                    /\ ActivatedAt(dev, ledController') = now'
                    /\ ev'.op \in ExternalSetPlanOps)
      ]_vars

\* a second activation of Button expired, 10001 ms after it was set
C6_Witness ==
    /\ dev = "crown" /\ ev = Ev("expired", PLAN_BUTTON)
    /\ USub(now, ledController.buttonStartTime) = 10001
    /\ ledController.buttonStartTime > 10000

\* a connectivity check that found the link down / up after it was up / down
LossDetected == pc = "wifi" /\ wifiConnected /\ ~wifiConnected'
RegainDetected == pc = "wifi" /\ ~wifiConnected /\ wifiConnected'

\* C7 (as claimed): on the crown with no update active, a detected loss of
\* connectivity while the controller's plan is Idle makes WifiFallback the
\* active plan, and while it is Button leaves the controller untouched.
C7_LossSwitchesIdleToFallback ==
    [][dev = "crown" /\ ~otaInProgress /\ LossDetected =>
        /\ planOf = PLAN_IDLE
             => ledController'.currentPlan = PLAN_WIFI_FALLBACK
        /\ planOf = PLAN_BUTTON
             => ledController' = ledController]_vars

\* C8: on the crown with no update active, a detected regain of
\* connectivity makes Idle the active plan when the controller's plan is
\* not Button, and leaves the controller untouched when it is Button.
C8_RegainSwitchesToIdle ==
    [][dev = "crown" /\ ~otaInProgress /\ RegainDetected =>
        /\ planOf # PLAN_BUTTON => ledController'.currentPlan = PLAN_IDLE
        /\ planOf = PLAN_BUTTON => ledController' = ledController]_vars

\* connectivity came back while WifiFallback had been running
C8_Witness ==
    /\ dev = "crown" /\ ev.op = "wifiRegained" /\ ~otaInProgress
    /\ planOf = PLAN_IDLE /\ wifiConnected
    /\ ledController.fallbackPulseStep > 0
    /\ ledController.haloPulseStep = 0

\* C9: a single-colour station command that parses maps to a plan by the
\* table red, yellow -> Button; green, white -> Idle; blue -> WifiFallback,
\* whatever the state before and the other payload fields; that plan is
\* active (controller and currentPlan) when the handler returns.
C9_StationColorTable ==
    dev = "crown" /\ ev.op = "stationColor200" =>
        /\ ev.arg \in {"red", "yellow"}
             => planOf = PLAN_BUTTON /\ currentPlan = PLAN_BUTTON
        /\ ev.arg \in {"green", "white"}
             => planOf = PLAN_IDLE /\ currentPlan = PLAN_IDLE
        /\ ev.arg = "blue"
             => planOf = PLAN_WIFI_FALLBACK
                /\ currentPlan = PLAN_WIFI_FALLBACK

\* yellow was received while an update was running and made Button active
C9_Witness ==
    /\ dev = "crown" /\ ev = Ev("stationColor200", "yellow")
    /\ planOf = PLAN_BUTTON
    /\ otaInProgress

\* C10: a multi-colour station payload that parses and carries a non-empty
\* colour list makes Button the active plan, freshly started, whatever the
\* colours, their number and the state before.
C10_MixedAlwaysButton ==
    dev = "crown" /\ ev.op = "stationMixed200" /\ ev.arg # "[]" =>
        /\ planOf = PLAN_BUTTON /\ currentPlan = PLAN_BUTTON
        /\ CanonButton(ledController, now)

\* a one-colour list (green) restarted Button after an earlier activation
C10_Witness ==
    /\ dev = "crown" /\ ev = Ev("stationMixed200", "[1]")
    /\ planOf = PLAN_BUTTON
    /\ ledController.buttonStartTime = now /\ now > 10000
    /\ ledController.haloPulseStep > 0

\* an update started in the loop iteration that is under way: onStart
\* stamps otaStartTime with the clock, which moves on when the iteration ends
StartedThisTick ==
    /\ otaInProgress /\ otaStartTime = now
    /\ pc \in {"http", "wifi", "update", "show"}

\* C11 (as claimed): when an update started in a loop iteration, whatever
\* else was handled in that iteration (a command, a connectivity change,
\* an expiry), the safe plan is the active plan when the iteration's frame
\* is handed to the strip.
C11_StartWinsWithinTick ==
    (StartedThisTick /\ pc = "show") => planOf = SafePlan(dev)

\* C12 (as claimed): at most one setPlan call is made in a loop iteration
\* before its frame is output.
C12_OneTransitionPerTick ==
    tickSetPlans <= 1

\* the function that renders plan p
RendererOf(p) ==
    CASE p = PLAN_IDLE -> "updateIdle"
      [] p = PLAN_BUTTON -> "updateButton"
      [] p = PLAN_WIFI_FALLBACK -> "updateWiFiFallback"
      [] p = PLAN_SKIP -> "updateSkip"
      [] p = PLAN_SHOW -> "updateShow"
      [] p = PLAN_SPECIAL -> "updateSpecial"

\* C13 (as claimed): on the crown and the stage, when a loop iteration
\* made a transition (by a callback, a command, the connectivity check or
\* an expiry found by the tick), the buffer handed to the strip at its end
\* was written in that iteration by the renderer of the plan now active.
C13_FrameIsOfNewPlan ==
    (dev \in {"crown", "stage"} /\ pc = "show" /\ tickSetPlans > 0) =>
        (ev.op = "update" /\ leds.by = RendererOf(planOf))

\* the station request served by step e was malformed: a body that does
\* not parse, a single-colour body without "color", a mixed body without
\* "colors" or with an empty "colors" list
Malformed(e) ==
    \/ e.op = "stationColor400"
    \/ e.op = "stationColor200" /\ e.arg = "unknown"
    \/ e.op = "stationMixed400"
    \/ e.op = "stationMixed200" /\ e.arg = "[]"

\* C14 (as claimed): serving a malformed station payload leaves the
\* active plan, the controller's plan state and currentPlan as they were.
C14_MalformedChangesNothing ==
    [][(dev = "crown" /\ pc = "http" /\ Malformed(ev'))
          => UNCHANGED <<ledController, currentPlan>>]_vars

\* C15 (as claimed): a malformed station payload, or a single-colour
\* payload whose colour is not one of the five known ones, is never
\* answered with the 200 success response.
C15_MalformedAnswered400 ==
    dev = "crown" =>
        /\ ~(ev.op = "stationColor200" /\ ev.arg \notin KnownColors)
        /\ ~(ev.op = "stationMixed200" /\ ev.arg = "[]")

\* the plan asked for by the command that step e served, "none" if e was
\* not a plan command
CommandOf(e) ==
    CASE e.op = "handleIdle" -> PLAN_IDLE
      [] e.op = "handleButton" -> PLAN_BUTTON
      [] e.op = "handleSkip" -> PLAN_SKIP
      [] e.op = "handleShow" -> PLAN_SHOW
      [] e.op = "handleSpecial" -> PLAN_SPECIAL
      [] e.op = "stationColor200" -> StationColorPlan(e.arg)
      [] e.op = "stationMixed200" /\ e.arg # "[]" -> PLAN_BUTTON
      [] OTHER -> "none"

\* C16: on the crown and the button device the update-failed callback
\* leaves otaInProgress false; the flag becomes true only in onStart and
\* false only in onError or the restart that ends onEnd, so it is true
\* exactly between a start and the next end or failure; and with the flag
\* false POST /ota is answered 200 (409 only while it is true), a plan
\* command makes its plan active and the crown's connectivity check
\* switches the plan again (to Idle on regain, to WifiFallback on loss,
\* unless currentPlan is Button).
C16_FailureClearsFlag ==
    [][(dev \in {"crown", "button"}) =>
        /\ ev'.op = "onError" => ~otaInProgress'
        /\ ev'.op = "onStart" => otaInProgress'
        /\ (~otaInProgress /\ otaInProgress') => ev'.op = "onStart"
        /\ (otaInProgress /\ ~otaInProgress') => ev'.op \in {"onError", "boot"}
        /\ ev'.op = "handleOTA409" => (otaInProgress /\ otaInProgress')
        /\ ev'.op = "handleOTA200" => (~otaInProgress /\ ~otaInProgress')
        /\ (~otaInProgress /\ pc = "http" /\ CommandOf(ev') # "none")
              => ledController'.currentPlan = CommandOf(ev')
        /\ (~otaInProgress /\ RegainDetected /\ currentPlan # PLAN_BUTTON)
              => ledController'.currentPlan = PLAN_IDLE
        /\ (~otaInProgress /\ LossDetected /\ currentPlan # PLAN_BUTTON)
              => ledController'.currentPlan = PLAN_WIFI_FALLBACK
      ]_vars

\* after an update that started and failed on the crown, POST /ota was
\* accepted
C16_Witness ==
    /\ dev = "crown" /\ ev.op = "handleOTA200"
    /\ ~otaInProgress /\ otaStartTime > 0

\* C17: with no update active, a plan command for p (POST /idle, /button,
\* /skip, /show, /special, a station colour that maps to p) makes p the
\* active plan, in the controller and in currentPlan, in the step that
\* serves it and whatever plan was active - WifiFallback while offline,
\* an unexpired Button or Skip; p is still active after that iteration's
\* connectivity check unless the check detects a change, and on the stage
\* and the button device p is the plan that iteration's tick renders.
C17_CommandTakesEffect ==
    [][~otaInProgress =>
        /\ (pc = "http" /\ CommandOf(ev') # "none")
              => (/\ ledController'.currentPlan = CommandOf(ev')
                  /\ currentPlan' = CommandOf(ev')
                  /\ now' = now)
        /\ (pc = "wifi" /\ CommandOf(ev) # "none"
               /\ wifiConnected' = wifiConnected)
              => ledController'.currentPlan = CommandOf(ev)
        /\ (dev \in {"stage", "button"} /\ UpdateStep
               /\ CommandOf(ev) # "none")
              => (/\ ledController'.currentPlan = CommandOf(ev)
                  /\ ev'.op = "update")
      ]_vars

\* POST /idle replaced WifiFallback on the crown while it was offline
C17_Witness ==
    /\ dev = "crown" /\ ev.op = "handleIdle"
    /\ ~otaInProgress /\ ~wifiConnected
    /\ planOf = PLAN_IDLE /\ currentPlan = PLAN_IDLE
    /\ leds.by = "updateWiFiFallback"

\* C18 (as claimed): on the stage, for p in {Idle, Show, Special}, the
\* first frame rendered after setPlan(p) does not depend on what ran
\* before: it is the frame a controller fresh from its constructor renders
\* first after setPlan(p).
C18_FirstFrameIndependentOfHistory ==
    (/\ dev = "stage" /\ pc = "update"
     /\ CommandOf(ev) \in {PLAN_IDLE, PLAN_SHOW, PLAN_SPECIAL}) =>
        StageLeds(ledController, now, leds)
          = StageLeds(StageSetPlan(StageLEDPlans, CommandOf(ev), now),
                      now, leds)

\* C19: on the crown, a command for Button served at t1 while Button is
\* already active restarts it: the start time becomes t1 and partyHue,
\* partySpeed and partyPattern are zero again; and every tick of Button
\* with now - start time <= 10000 keeps Button, so the restarted plan
\* runs until t1 + 10000 whatever the first activation time was.
C19_RepeatedButtonRestarts ==
    [][dev = "crown" /\ planOf = PLAN_BUTTON =>
        /\ (pc = "http" /\ CommandOf(ev') = PLAN_BUTTON)
              => (/\ ledController'.currentPlan = PLAN_BUTTON
                  /\ CanonButton(ledController', now)
                  /\ ledController'.buttonActive)
        /\ (UpdateStep
               /\ ~UGt(USub(now, ledController.buttonStartTime), 10000))
              => (/\ ledController'.currentPlan = PLAN_BUTTON
                  /\ ledController'.buttonStartTime
                       = ledController.buttonStartTime)
      ]_vars

\* POST /button was served while Button was running (its last frame is in
\* the buffer, its counters had advanced) and restarted it
C19_Witness ==
    /\ dev = "crown" /\ ev.op = "handleButton" /\ tickSetPlans = 1
    /\ leds.by = "updateButton"
    /\ planOf = PLAN_BUTTON
    /\ ledController.buttonStartTime = now
    /\ ledController.partySpeed = 0 /\ ledController.partyHue = 0

\* C20: on the crown and the stage, once the bounded plan has been
\* replaced its timer is dead: a tick of any other plan leaves the active
\* plan as it is, also when the time since the bounded plan's activation
\* exceeds its duration; and a later command for the bounded plan starts
\* it with activation time = now, i.e. with its full duration ahead.
C20_PreemptedTimerNeverFires ==
    [][(dev \in {"crown", "stage"}) =>
        /\ (UpdateStep /\ planOf # BoundedPlan(dev))
              => (/\ ledController'.currentPlan = planOf
                  /\ ev'.op = "update")
        /\ (pc = "http" /\ CommandOf(ev') = BoundedPlan(dev))
              => (/\ ledController'.currentPlan = BoundedPlan(dev)
                  /\ ActivatedAt(dev, ledController') = now)
      ]_vars

\* Idle, which replaced Button before Button's 10 s were over, is ticking
\* for at least the second time, more than 10 s after Button's activation
C20_Witness ==
    /\ dev = "crown" /\ ev = Ev("update", PLAN_IDLE)
    /\ planOf = PLAN_IDLE
    /\ ledController.haloPulseStep >= 2
    /\ ledController.buttonActive
    /\ USub(now, ledController.buttonStartTime) > 10000
    /\ USub(now, ledController.buttonStartTime) <= 15000

\* C21: on the crown, a connectivity check that detects a loss or a regain
\* while otaInProgress is set changes wifiConnected and nothing else of
\* the plan: the controller (plan and plan state), currentPlan, the pixel
\* buffer and the update variables stay as they were.
C21_ConnectivityIgnoredDuringUpdate ==
    [][(dev = "crown" /\ otaInProgress /\ (LossDetected \/ RegainDetected))
          => (/\ UNCHANGED <<ledController, currentPlan, leds, tickSetPlans,
                             otaInProgress, otaStartTime, otaProgress>>
              /\ wifiConnected' = ~wifiConnected)]_vars

\* the link came back during an update: WifiFallback stayed although
\* currentPlan was not Button
C21_Witness ==
    /\ dev = "crown" /\ ev.op = "wifiRegained"
    /\ otaInProgress /\ wifiConnected
    /\ currentPlan = PLAN_WIFI_FALLBACK /\ planOf = PLAN_WIFI_FALLBACK

\* the steps that serve a request which is not a plan command
AnswerOnlyOps ==
    {"handleStatus", "handleHealth", "handleVersion", "handleOTAStatus",
     "handleOTA200", "handleOTA409", "handleNotFound"}

\* C22: serving GET /status, /health, /version, /ota-status, POST /ota
\* (accepted or refused with 409) or an unknown route changes nothing:
\* the controller (plan and plan state), currentPlan, the pixel buffer,
\* otaInProgress, otaStartTime, otaProgress, wifiConnected and the clock
\* are as before.
C22_AnswerOnlyRequestsChangeNothing ==
    [][(pc = "http" /\ ev'.op \in AnswerOnlyOps)
          => UNCHANGED <<ledController, currentPlan, leds, tickSetPlans,
                         otaInProgress, otaStartTime, otaProgress,
                         wifiConnected, lastWiFiCheck, now>>]_vars

\* POST /ota was refused during an update that had reported 50 %
C22_Witness ==
    /\ dev = "crown" /\ ev.op = "handleOTA409"
    /\ otaInProgress /\ otaProgress = 50
    /\ planOf = PLAN_WIFI_FALLBACK

\* C23: every pixel write of a tick uses an index inside the strip: on
\* the crown 0 <= i < 200 (fills, the three comets and their trails, the
\* sparkle and glitter indices), on the stage 0 <= i < 100, on the
\* flamingo 0 <= i < 100 in each strip (the fill and the moving dot, and
\* the wave of the idle pattern).
C23_PixelWritesInRange ==
    /\ dev = "crown" =>
          \A i \in CrownWrites(ledController, now) : 0 <= i /\ i < 200
    /\ dev = "stage" =>
          \A i \in StageWrites(ledController, now) : 0 <= i /\ i < 100
    /\ dev = "flamingo" =>
          \A pattern \in {PATTERN_IDLE, PATTERN_MOVING} :
            \A i \in FlamingoWrites(ledController, pattern, now) :
              0 <= i /\ i < 100

\* a WifiFallback tick is about to draw a comet head at index 198, whose
\* trail would pass the end of the strip
C23_Witness ==
    /\ dev = "crown" /\ pc = "update"
    /\ planOf = PLAN_WIFI_FALLBACK
    /\ ledController.runningPixelPos = 197
    /\ 198 \in CrownWrites(ledController, now)
    /\ 199 \in CrownCometWrites(198)

----------------------------------------------------------------------------
\* C24 (as claimed): in every state where a request can be served, the plan
\* the status endpoint reports (the currentPlan variable of main.cpp) is the
\* controller's active plan, getCurrentPlan().
C24_StatusReportsControllerPlan ==
    (dev \in {"crown", "stage"} /\ pc = "http")
        => currentPlan = getCurrentPlan(ledController)

----------------------------------------------------------------------------
\* C25: in the tick that finds a bounded plan's duration exceeded (crown
\* Button, stage Skip) the expiry is handled before rendering: the tick
\* leaves the pixel buffer as it was, and the Button counters partySpeed,
\* partyHue and partyPattern keep the values of the previous tick.
C25_ExpiryBeforeRendering ==
    [][(dev \in {"crown", "stage"} /\ Expiry) =>
        /\ leds' = leds
        /\ dev = "crown" =>
              /\ ledController'.partySpeed = ledController.partySpeed
              /\ ledController'.partyHue = ledController.partyHue
              /\ ledController'.partyPattern = ledController.partyPattern
      ]_vars

\* Button expired after it had rendered: the buffer still holds a party
\* frame and the counters their last values
C25_Witness ==
    /\ dev = "crown" /\ ev = Ev("expired", PLAN_BUTTON)
    /\ planOf = PLAN_IDLE
    /\ leds.by = "updateButton"
    /\ ledController.partySpeed > 0 /\ ledController.partyHue > 0

----------------------------------------------------------------------------
\* C26 (as claimed): when a running update fails, the error callback makes
\* the plan that was active immediately before the update started the
\* active plan again (crown and button).
C26_ErrorRestoresPreviousPlan ==
    [][(dev \in {"crown", "button"} /\ otaInProgress /\ pc = "ota"
            /\ ev'.op = "onError")
        => getCurrentPlan(ledController') = otaPrevPlan]_vars

\* Button was active when the update started; the error callback left Idle
C26_ButtonNotRestored ==
    /\ dev = "crown" /\ ev.op = "onError" /\ wifiConnected
    /\ otaPrevPlan = PLAN_BUTTON /\ planOf = PLAN_IDLE
    /\ ULt(USub(now, ledController.buttonStartTime), BUTTON_DURATION)

----------------------------------------------------------------------------
\* the plans without a duration
UnboundedPlans == {PLAN_IDLE, PLAN_SHOW, PLAN_SPECIAL, PLAN_WIFI_FALLBACK}

\* C27: an unbounded plan never replaces itself: a tick while Idle, Show,
\* Special or WifiFallback is active leaves the controller's plan tag as it
\* is, however many ticks have run; a tick that does change the tag started
\* in Button (crown) or Skip (stage) and ends in Idle.
C27_UnboundedPlansStay ==
    [][(dev \in {"crown", "stage"} /\ UpdateStep) =>
        /\ planOf \in UnboundedPlans
              => getCurrentPlan(ledController') = planOf
        /\ getCurrentPlan(ledController') # planOf
              => (/\ planOf \in {PLAN_BUTTON, PLAN_SKIP}
                  /\ getCurrentPlan(ledController') = PLAN_IDLE)
      ]_vars

\* Show has ticked through a whole pulse period and is still active
C27_Witness ==
    /\ dev = "stage" /\ ev = Ev("update", PLAN_SHOW)
    /\ planOf = PLAN_SHOW
    /\ ledController.showPulseStep = 0

----------------------------------------------------------------------------
\* C28: bounded plans always end: while the loop keeps running and the clock
\* advances, an activation of Button (crown) or Skip (stage) that no command
\* replaces is eventually followed by a state where Idle is the controller's
\* plan.
C28_BoundedPlansEnd ==
    ((dev = "crown" /\ planOf = PLAN_BUTTON)
         \/ (dev = "stage" /\ planOf = PLAN_SKIP))
      ~> (dev \in {"crown", "stage"} /\ planOf = PLAN_IDLE)

\* Button ended by itself in the first 20 ms tick after its 10000 ms
C28_Witness ==
    /\ dev = "crown" /\ ev = Ev("expired", PLAN_BUTTON)
    /\ planOf = PLAN_IDLE
    /\ USub(now, ledController.buttonStartTime) = BUTTON_DURATION + 20

----------------------------------------------------------------------------
\* C29: on the stage, a tick of the Skip plan at elapsed time e since the
\* activation fills the whole strip with one colour: white when e is in
\* [0,150) or [300,450), black when e is in [150,300) or [450,600).
C29_SkipPhaseTable ==
    [][(dev = "stage" /\ UpdateStep /\ planOf = PLAN_SKIP) =>
        LET e == USub(now, ledController.skipStartTime)
            white == ULt(e, 150) \/ (~ULt(e, 300) /\ ULt(e, 450))
            black == (~ULt(e, 150) /\ ULt(e, 300))
                        \/ (~ULt(e, 450) /\ ULt(e, 600))
        IN  /\ white => leds' = Frame("updateSkip", "White", 0)
            /\ black => leds' = Frame("updateSkip", "Black", 0)
            /\ (white \/ black)
                 => StageWrites(ledController, now) = 0 .. 99
      ]_vars

\* the tick 300 ms after the activation has drawn the second white flash
C29_Witness ==
    /\ dev = "stage" /\ ev = Ev("update", PLAN_SKIP)
    /\ planOf = PLAN_SKIP
    /\ USub(now, ledController.skipStartTime) = 300
    /\ leds = Frame("updateSkip", "White", 0)

\* the ticks at the other window borders were drawn as well
C29_Borders ==
    /\ dev = "stage" /\ ev = Ev("update", PLAN_SKIP)
    /\ USub(now, ledController.skipStartTime) \in {150, 449, 450, 599}

----------------------------------------------------------------------------
\* a tick of the Button plan that renders, and the time since the activation
ButtonRenders ==
    /\ dev = "crown" /\ UpdateStep /\ planOf = PLAN_BUTTON
    /\ ~UGt(USub(now, ledController.buttonStartTime), BUTTON_DURATION)

\* the sub-patterns of the ten one-second windows of an activation
PatternOrder == <<0, 1, 2, 3, 0, 1, 2, 3, 0, 1>>

\* C30 (as claimed): in every Button tick that renders, the sub-pattern
\* index is floor(elapsed / 1000) mod 4, lies in 0..3, and is the entry of
\* 0,1,2,3,0,1,2,3,0,1 for the one-second window the tick falls in.
C30_SubPatternOrder ==
    [][ButtonRenders =>
        LET e == USub(now, ledController.buttonStartTime)
            p == ledController'.partyPattern
        IN  /\ p = (e \div 1000) % 4
            /\ p \in 0 .. 3
            /\ (e \div 1000) + 1 \in DOMAIN PatternOrder
            /\ p = PatternOrder[(e \div 1000) + 1]
      ]_vars

\* C30 (amended): in every Button tick that renders, the sub-pattern index
\* is floor(elapsed / 1000) mod 4, lies in 0..3 and is the pattern of the
\* frame; for elapsed < 10000 it is the entry of 0,1,2,3,0,1,2,3,0,1 for
\* the tick's one-second window, and a tick at elapsed = 10000 exactly
\* still renders, with sub-pattern 2.
C30_SubPatternOrderAmended ==
    [][ButtonRenders =>
        LET e == USub(now, ledController.buttonStartTime)
            p == ledController'.partyPattern
        IN  /\ p = (e \div 1000) % 4
            /\ p \in 0 .. 3
            /\ leds' = Frame("updateButton", "party", p)
            /\ e < BUTTON_DURATION => p = PatternOrder[(e \div 1000) + 1]
            /\ e = BUTTON_DURATION => p = 2
      ]_vars

\* the tick exactly 10000 ms after the activation rendered sub-pattern 2
C30_Witness ==
    /\ dev = "crown" /\ ev = Ev("update", PLAN_BUTTON)
    /\ planOf = PLAN_BUTTON
    /\ USub(now, ledController.buttonStartTime) = BUTTON_DURATION
    /\ ledController.partyPattern = 2
    /\ leds = Frame("updateButton", "party", 2)

----------------------------------------------------------------------------
\* a tick of plan p on device d that does not end the plan
PlanTick(d, p) == dev = d /\ UpdateStep /\ planOf = p

\* a counter that counts the ticks modulo 128 and the phase drawn from it,
\* which no other step of the period draws
WrapsAt128(before, after, phase) ==
    /\ after \in 0 .. 127
    /\ after = (before + 1) % 128
    /\ phase = (2 * (before + 1)) % 256
    /\ \A other \in 0 .. 127 :
         other # before => (2 * (other + 1)) % 256 # phase

\* C31: the pulse step counters of Idle (crown and stage), WifiFallback and
\* Special are in 0..127 after every tick and count the ticks modulo 128,
\* and the sine phase a tick draws is twice the tick's step modulo 256;
\* the 128 steps of a period give 128 different phases, so the sequence of
\* frames repeats after exactly 128 ticks and not earlier.
C31_PulseWrapsAt128 ==
    [][/\ PlanTick("crown", PLAN_IDLE) =>
             WrapsAt128(ledController.haloPulseStep,
                        ledController'.haloPulseStep, leds'.arg)
       /\ PlanTick("crown", PLAN_WIFI_FALLBACK) =>
             WrapsAt128(ledController.fallbackPulseStep,
                        ledController'.fallbackPulseStep, leds'.arg)
       /\ PlanTick("stage", PLAN_IDLE) =>
             WrapsAt128(ledController.idlePulseStep,
                        ledController'.idlePulseStep, leds'.arg)
       /\ PlanTick("stage", PLAN_SPECIAL) =>
             WrapsAt128(ledController.specialPulseStep,
                        ledController'.specialPulseStep, leds'.arg)
      ]_vars

\* the 128th Idle tick of the crown: the counter is back at 0 and the
\* frame was drawn with phase 256 mod 256 = 0
C31_Witness ==
    /\ dev = "crown" /\ ev = Ev("update", PLAN_IDLE)
    /\ ledController.haloPulseStep = 0
    /\ leds = Frame("updateIdle", "blue", 0)

----------------------------------------------------------------------------
\* the tick of plan p on device d follows a tick of the same renderer, and
\* the phase it draws is the previous frame's phase plus mult, modulo 256
PhaseAdvances(d, p, renderer, mult) ==
    (PlanTick(d, p) /\ leds.by = renderer)
        => (leds'.by = renderer /\ leds'.arg = (leds.arg + mult) % 256)

\* C32 (as claimed): for every pulsing plan the 8-bit sine phase advances
\* by the plan's multiplier modulo 256 from each tick to the next, also
\* across the wrap of the step counter (Idle, WifiFallback and Special:
\* multiplier 2; Show: multiplier 3).
C32_PhaseContinuous ==
    [][/\ PhaseAdvances("crown", PLAN_IDLE, "updateIdle", 2)
       /\ PhaseAdvances("crown", PLAN_WIFI_FALLBACK, "updateWiFiFallback", 2)
       /\ PhaseAdvances("stage", PLAN_IDLE, "updateIdle", 2)
       /\ PhaseAdvances("stage", PLAN_SPECIAL, "updateSpecial", 2)
       /\ PhaseAdvances("stage", PLAN_SHOW, "updateShow", 3)
      ]_vars

\* the same without Show
C32_PhaseContinuousMult2 ==
    [][/\ PhaseAdvances("crown", PLAN_IDLE, "updateIdle", 2)
       /\ PhaseAdvances("crown", PLAN_WIFI_FALLBACK, "updateWiFiFallback", 2)
       /\ PhaseAdvances("stage", PLAN_IDLE, "updateIdle", 2)
       /\ PhaseAdvances("stage", PLAN_SPECIAL, "updateSpecial", 2)
      ]_vars

----------------------------------------------------------------------------
\* buffer contents a tick can find: the cleared strip and the Skip fills
OtherBuffers ==
    {clearAll, Frame("updateSkip", "White", 0),
     Frame("updateSkip", "Black", 0)}

\* C33 (as claimed): the renderers without random input are deterministic:
\* a tick of Idle, Skip, Show or Special on the stage, or of Idle on the
\* crown, leaves the buffer that the plan state and the clock determine,
\* whatever the buffer held before the tick.
C33_RenderersDeterministic ==
    /\ (dev = "stage" /\ pc = "update") =>
          \A buf \in OtherBuffers :
              StageLeds(ledController, now, buf)
                = StageLeds(ledController, now, leds)
    /\ (dev = "crown" /\ pc = "update" /\ planOf = PLAN_IDLE) =>
          \A buf \in OtherBuffers :
              CrownLeds(ledController, now, buf)
                = CrownLeds(ledController, now, leds)

\* Skip is about to take its expiry branch with the strip still white
C33_ExpiryOnWhite ==
    /\ dev = "stage" /\ pc = "update" /\ planOf = PLAN_SKIP
    /\ ~ULt(USub(now, ledController.skipStartTime), SKIP_DURATION)
    /\ leds = Frame("updateSkip", "White", 0)

\* Skip is about to take its expiry branch with the strip black
C33_ExpiryOnBlack ==
    /\ dev = "stage" /\ pc = "update" /\ planOf = PLAN_SKIP
    /\ ~ULt(USub(now, ledController.skipStartTime), SKIP_DURATION)
    /\ leds = Frame("updateSkip", "Black", 0)

----------------------------------------------------------------------------
\* C34: on the crown, setPlan(WifiFallback) puts the comet position at 0
\* and every WifiFallback tick advances it by one modulo 200 and draws the
\* head of comet i (i = 0,1,2) at (position + 30*i) mod 200, so the k-th
\* tick after the activation draws the heads at (k + 30*i) mod 200, 0
\* following 199; the 8-bit counter is at most 200 when it is drawn with
\* and at most 199 after the tick.
C34_CometPositions ==
    [][/\ PlanTick("crown", PLAN_WIFI_FALLBACK) =>
           LET before == ledController.runningPixelPos
               drawn == U8(before + 1)
           IN  /\ drawn = before + 1 /\ drawn <= 200
               /\ ledController'.runningPixelPos = (before + 1) % 200
               /\ ledController'.runningPixelPos <= 199
               /\ \A i \in 0 .. 2 :
                    /\ CometHead(drawn, i) = (before + 1 + 30 * i) % 200
                    /\ CometHead(drawn, i) \in CrownWrites(ledController, now)
                    /\ CometHead(drawn, i) \in CrownCometWrites(drawn)
       /\ (~UpdateStep /\ CrownJustSet(PLAN_WIFI_FALLBACK)')
             => ledController'.runningPixelPos = 0
      ]_vars

\* the 200th tick after an activation (200 mod 128 = 72 pulse steps) drew
\* comet 0 at index 0 and left the position counter at 0
C34_Witness ==
    /\ dev = "crown" /\ ev = Ev("update", PLAN_WIFI_FALLBACK)
    /\ ledController.runningPixelPos = 0
    /\ ledController.fallbackPulseStep = 72
    /\ CometHead(200, 0) = 0

----------------------------------------------------------------------------
\* C35: when setup() of the crown has returned, the controller's plan is
\* Idle if setupWiFi() connected and WifiFallback if it gave up, and
\* main.cpp's currentPlan holds the same plan.
C35_StartupPlanMatchesConnectivity ==
    (dev = "crown" /\ ev.op = "setup") =>
        /\ getCurrentPlan(ledController)
              = (IF wifiConnected THEN PLAN_IDLE ELSE PLAN_WIFI_FALLBACK)
        /\ currentPlan = getCurrentPlan(ledController)

\* setup() returned after 20 failed waits of 500 ms with WifiFallback set
C35_Witness ==
    /\ dev = "crown" /\ ev.op = "setup" /\ pc = "ota"
    /\ ~wifiConnected /\ now = WIFI_MAX_ATTEMPTS * WIFI_ATTEMPT_DELAY
    /\ getCurrentPlan(ledController) = PLAN_WIFI_FALLBACK
    /\ currentPlan = PLAN_WIFI_FALLBACK

----------------------------------------------------------------------------
\* C36: on the crown, a connectivity change detected while Button is active
\* or an update is in progress changes the connectivity flag and nothing of
\* the plan; the tick that ends Button makes Idle the active plan whatever
\* the flag says; and a check that finds the connectivity unchanged never
\* switches the plan, so a change that was ignored is not acted on later.
C36_ConnectivityNotReplayed ==
    [][dev = "crown" =>
        /\ ((LossDetected \/ RegainDetected)
               /\ (planOf = PLAN_BUTTON \/ otaInProgress))
              => (/\ UNCHANGED <<ledController, currentPlan, leds>>
                  /\ wifiConnected' = ~wifiConnected)
        /\ (UpdateStep /\ planOf = PLAN_BUTTON
               /\ UGt(USub(now, ledController.buttonStartTime),
                      BUTTON_DURATION))
              => (/\ getCurrentPlan(ledController') = PLAN_IDLE
                  /\ UNCHANGED <<wifiConnected, currentPlan>>)
        /\ (pc = "wifi" /\ wifiConnected' = wifiConnected)
              => UNCHANGED <<ledController, currentPlan, leds>>
      ]_vars

\* Button, started online right after setup, has expired: the crown is
\* offline with Idle active, and the check after the expiry found the
\* connectivity unchanged and left Idle in place
C36_Witness ==
    /\ dev = "crown" /\ ev = Ev("wifiSame", "")
    /\ ~wifiConnected /\ ~otaInProgress
    /\ getCurrentPlan(ledController) = PLAN_IDLE
    /\ ledController.buttonStartTime = WIFI_ATTEMPT_DELAY
    /\ UGt(USub(now, ledController.buttonStartTime), BUTTON_DURATION)
    /\ currentPlan = PLAN_BUTTON

----------------------------------------------------------------------------
\* the buttons the station holds active
ActiveSet == {i \in 1 .. 5 : station.buttons[i].active}

\* cs lists exactly the colours of the buttons in A, in the order red,
\* green, blue, yellow, white
InFixedOrder(cs, A) ==
    /\ Len(cs) = Cardinality(A)
    /\ \A i \in A : \E k \in 1 .. Len(cs) : cs[k] = buttonColors[i]
    /\ \A k \in 1 .. Len(cs) : \E i \in A : cs[k] = buttonColors[i]
    /\ \A j, k \in 1 .. Len(cs) :
         j < k => \E a, b \in 1 .. 5 :
                    a < b /\ cs[j] = buttonColors[a]
                          /\ cs[k] = buttonColors[b]

\* C37: the command of the station's latest button check is fixed by the
\* buttons active after it, whether the station is still waiting in
\* http.POST for the answer or has finished the loop(): with the
\* connectivity flag set, one active button gives one /station-color
\* command carrying that button's colour, two or more give one
\* /station-mixed-color command listing exactly the active colours in the
\* order red, green, blue, yellow, white, and none gives nothing; with the
\* flag clear, or in a loop() that skipped the button check, nothing is
\* posted.
C37_CommandFromActiveSet ==
    /\ station.pc = "loop" => station.request = NoCommand
    /\ station.pc = "post" \/ (station.pc = "loop" /\ station.loops > 0) =>
        LET waiting == station.pc = "post"
            sent == IF waiting THEN station.request ELSE station.sent
            passed == waiting \/ station.passed
            n == Cardinality(ActiveSet)
        IN  IF ~passed \/ ~station.wifiConnected \/ n = 0
            THEN sent.path = "none"
            ELSE IF n = 1
            THEN /\ sent.path = "/station-color"
                 /\ sent.action = "color"
                 /\ \E i \in ActiveSet : sent.color = buttonColors[i]
            ELSE /\ sent.path = "/station-mixed-color"
                 /\ sent.action = "mixed-color"
                 /\ InFixedOrder(sent.colors, ActiveSet)

\* red, blue and white are held and the crown has just served the mixed
\* command listing them
C37_Witness ==
    /\ station.pc = "post" /\ station.response.code = 200
    /\ station.wifiConnected
    /\ ActiveSet = {1, 3, 5}
    /\ station.request.path = "/station-mixed-color"
    /\ station.request.colors = <<"red", "blue", "white">>
    /\ ev = Ev("stationMixed200", "[3+]")

\* yellow alone is held and the crown has just served its command
C37_SingleSent ==
    /\ station.pc = "post" /\ station.response.code = 200
    /\ station.wifiConnected
    /\ ActiveSet = {4}
    /\ station.request.path = "/station-color"
    /\ station.request.color = "yellow"
    /\ ev = Ev("stationColor200", "yellow")

\* buttons are active on a station without connectivity: nothing is sent
C37_SilentOffline ==
    /\ station.pc = "loop"
    /\ station.passed /\ ~station.wifiConnected
    /\ Cardinality(ActiveSet) >= 2
    /\ station.sent = NoCommand
    /\ ev = Ev("stationLoop", "")

\* the command of a button check was lost: it counts as sent, and the
\* crown has passed handleClient() without a request
C37_LostIsSent ==
    /\ station.pc = "loop" /\ station.lost > 0
    /\ ActiveSet = {2}
    /\ station.sent.path = "/station-color"
    /\ station.sent.color = "green"
    /\ ev = Ev("httpNone", "")

----------------------------------------------------------------------------
\* the station has made a button check in this step
CheckedButtons ==
    /\ station.pc = "loop"
    /\ \/ station'.pc = "post"
       \/ /\ station'.pc = "loop"
          /\ station'.loops = station.loops + 1
          /\ station'.passed

\* the crown has served the station's request in this step
ServedRequest == RequestWaiting /\ station'.response # NoResponse

\* ledController.update() has run in this step
UpdatedPlan == pc = "update" /\ pc' = "show"

\* red or yellow is active on a station that has connectivity
ButtonColourHeld ==
    station.wifiConnected /\ ActiveSet \cap {1, 4} # {}

\* C38: the station sends by level: every button check that leaves at
\* least one button active on a connected station posts a command, also
\* when the active buttons are those of the check before; each command
\* for red or yellow, alone or in a mix, that the crown serves leaves it in
\* Button with a new start time; and with no more than MaxLost commands
\* lost in a row Button never expires on the crown while red or yellow is
\* held.
C38_LevelTriggered ==
    [][/\ CheckedButtons =>
            LET st == station'
                A == {i \in 1 .. 5 : st.buttons[i].active}
            IN  (st.wifiConnected /\ A # {})
                   => st.pc = "post" /\ st.request.path # "none"
       /\ (ServedRequest /\ ButtonColourHeld)
             => /\ getCurrentPlan(ledController') = PLAN_BUTTON
                /\ ledController'.buttonStartTime = now
                /\ currentPlan' = PLAN_BUTTON
       /\ (UpdatedPlan /\ ev' = Ev("expired", PLAN_BUTTON))
             => ~ButtonColourHeld
      ]_vars

\* red has been down for more than the 10000 ms of Button, its command
\* was posted at every check since it became active, and the crown has
\* just served one more and restarted Button
C38_Witness ==
    /\ station.hand = "held"
    /\ station.pc = "post" /\ station.response.code = 200
    /\ ActiveSet = {1}
    /\ station.pins[1] = LOW
    /\ station.millis - station.buttons[1].lastDebounceTime
          > BUTTON_DURATION + DEBOUNCE_TIME
    /\ station.request.path = "/station-color"
    /\ station.request.color = "red"
    /\ ev = Ev("stationColor200", "red")
    /\ getCurrentPlan(ledController) = PLAN_BUTTON
    /\ ledController.buttonStartTime = now

\* after a button was released, Button does expire
C38_ReleasedExpires ==
    /\ station.hand = "held" /\ station.changes = 2
    /\ ActiveSet = {}
    /\ ev = Ev("expired", PLAN_BUTTON)

\* a command that is lost leaves Button running from the command before
C38_LostKeepsStart ==
    /\ station.hand = "held" /\ station.lost > 0
    /\ ButtonColourHeld
    /\ getCurrentPlan(ledController) = PLAN_BUTTON
    /\ now - ledController.buttonStartTime > 40
    /\ ev = Ev("update", PLAN_BUTTON)

----------------------------------------------------------------------------
\* C39: expiry is right across the wrap of the millisecond clock.  At every
\* tick of a Button plan on the crown and of a Skip plan on the stage, in
\* behaviours whose clock passes from 2^32 - 1 to 0 while the plan runs,
\* the difference modulo 2^32 of the clock and the stored start time is
\* the time that truly passed since the plan was set (the sum of the
\* delays since then).  The tick ends Button exactly when more than
\* 10000 ms truly passed and Skip exactly when 600 ms or more truly
\* passed: never earlier, in particular not at the first tick after the
\* wrap, and at the first tick that reaches the duration.  No tick ends
\* any other plan.
C39_ExpiryAcrossWrap ==
    [][UpdateStep =>
        /\ (dev = "crown" /\ planOf = PLAN_BUTTON) =>
              /\ USub(now, ledController.buttonStartTime) = trueElapsed
              /\ (getCurrentPlan(ledController') = PLAN_IDLE)
                    <=> trueElapsed > BUTTON_DURATION
              /\ (getCurrentPlan(ledController') = PLAN_BUTTON)
                    <=> trueElapsed <= BUTTON_DURATION
        /\ (dev = "stage" /\ planOf = PLAN_SKIP) =>
              /\ USub(now, ledController.skipStartTime) = trueElapsed
              /\ (getCurrentPlan(ledController') = PLAN_IDLE)
                    <=> trueElapsed >= SKIP_DURATION
              /\ (getCurrentPlan(ledController') = PLAN_SKIP)
                    <=> trueElapsed < SKIP_DURATION
        /\ Expiry => planOf = BoundedPlan(dev)
      ]_vars

\* Button, set at clock value 2^32 - 10, has just expired at clock value
\* 10010, at the first tick past its 10000 ms
C39_Witness ==
    /\ dev = "crown" /\ ev = Ev("expired", PLAN_BUTTON)
    /\ Hi(ledController.buttonStartTime) = HalfWord - 1
    /\ Lo(ledController.buttonStartTime) = HalfWord - 10
    /\ Hi(now) = 0 /\ Lo(now) = BUTTON_DURATION + 10
    /\ getCurrentPlan(ledController) = PLAN_IDLE

\* Button, set before the wrap, is still running after its first tick
\* past the wrap, 120 ms after it was set
C39_ButtonSurvivesWrap ==
    /\ dev = "crown" /\ ev = Ev("update", PLAN_BUTTON)
    /\ Hi(ledController.buttonStartTime) = HalfWord - 1
    /\ Hi(now) = 0 /\ Lo(now) = 10
    /\ trueElapsed = WrapLead + 10
    /\ getCurrentPlan(ledController) = PLAN_BUTTON

\* Button is about to be ticked when exactly 10000 ms truly passed, the
\* wrap among them: the tick keeps it
C39_ButtonAtItsDuration ==
    /\ dev = "crown" /\ pc = "update"
    /\ getCurrentPlan(ledController) = PLAN_BUTTON
    /\ Hi(ledController.buttonStartTime) = HalfWord - 1
    /\ Hi(now) = 0
    /\ trueElapsed = BUTTON_DURATION

\* Skip, set at clock value 2^32 - WrapLead, has just expired at clock
\* value 600 - WrapLead
C39_SkipExpiresAfterWrap ==
    /\ dev = "stage" /\ ev = Ev("expired", PLAN_SKIP)
    /\ ledController.skipStartTime = WrapStart
    /\ Hi(now) = 0 /\ Lo(now) = SKIP_DURATION - WrapLead
    /\ getCurrentPlan(ledController) = PLAN_IDLE

=============================================================================
